---------------------------- MODULE Spec2Model ----------------------------
(***************************************************************************)
(* Rate-limited ingestion and aggregation pipeline of the task-metrics     *)
(* endpoint (api/task-metrics.ts) and of the browser services              *)
(* (services/tasksApi.ts, services/dealsApi.ts).                           *)
(*                                                                         *)
(* The components are modelled as separate specifications over one set of *)
(* variables; a specification leaves the variables of the other           *)
(* components at their initial values:                                     *)
(*   SpecLimiter   RateLimiter.throttle / processQueue, open callers       *)
(*   SpecPool      the 20 workers over the deal list                       *)
(*   SpecAgg       step 4 of calculateMetrics over drawn inputs            *)
(*   SpecFetch     one paginated fetcher over a resource of n records      *)
(*   SpecCache     the handler and cachedData, overlapping calls           *)
(*   SpecPipeline  the handler and calculateMetrics from end to end        *)
(***************************************************************************)
EXTENDS Integers, Sequences, FiniteSets, Bags, TLC

(***************************************************************************)
(* Program constants                                                       *)
(***************************************************************************)
maxConcurrent == 20
minInterval == 200
\* workers of the child-list pool: Array.from({ length: 20 }, ...)
NumWorkers == 20
\* page size of the paginated fetchers
limit == 100
\* maxTasks: number = 1000, tasksApi.ts line 145
DefaultMaxTasks == 1000

(***************************************************************************)
(* Bounds of the model                                                     *)
(***************************************************************************)
\* number of throttle() calls the environment makes
MaxCalls == 22
\* Date.now() when the limiter is constructed (milliseconds)
Epoch == 1000
\* granularity of the clock (milliseconds)
TimeStep == 100
\* number of clock steps a behaviour may take
MaxTicks == 3
\* deal lists handed to the worker pool: 0..MaxPoolDeals deals, and
\* NumWorkers + 1 .. NumWorkers + MaxPoolExtra deals (slices of two deals)
MaxPoolDeals == 3
MaxPoolExtra == 1
\* number of child records handed to the aggregation
MaxAggTasks == 2
\* number of times the aggregation is run over the same inputs
MaxAggRuns == 2
\* largest remote resource a single paginated fetcher is run on
MaxRecords == 201
\* limiter with two queued calls followed: the horizon of the clock, in ticks
MaxFifoTicks == 4
\* limiter under fairness: throttle() calls and the horizon of arrivals, in ticks
MaxFairCalls == 21
MaxFairTicks == 2
\* handler: call slots that can overlap, calls made, half-TTL steps of the clock
MaxHandlers == 2
MaxRequests == 3
MaxLongTicks == 3
\* pipeline: deals of the remote account
MaxRemoteDeals == 3
\* fetchTasks: pages asked for when maxTasks is small; records the remote holds
MaxTaskPages == 3
MaxRemoteTasks == 250

VARIABLES
    \* ---- the clock, Date.now()
    now,
    \* ---- RateLimiter fields
    queue,            \* pending execute closures, by call number
    activeRequests,
    lastRequestTime,
    \* ---- RateLimiter: closures and timers outside the object
    sleeping,         \* bag of wake-up times of the callers suspended in setTimeout
    calls,            \* throttle() calls made so far
    inFlight,         \* wrapped operations invoked and not yet settled
    started,          \* wrapped operations invoked so far
    settled,          \* throttle() promises settled so far
    probe,            \* one call followed from throttle() to its settlement
    \* ---- worker pool of calculateMetrics / fetchDealsAndTasks
    allDeals,         \* the deal list, in order
    poolPhase,        \* "idle", "running" (await Promise.all), "joined"
    workerAt,         \* worker -> index i of the deal whose request it awaits
    workerDone,       \* worker -> TRUE once its async function has returned
    workerTasks,      \* worker -> its partial result
    allTasks,         \* the combined result
    requested,        \* bag of the deal indices requested so far
    completed,        \* bag of the deal indices whose request has settled
    failedDeals,      \* ids of the observed deals whose request failed
    \* ---- aggregation of calculateMetrics
    userMap,          \* user id -> display name
    tzOffset,         \* local time minus UTC of the process (milliseconds)
    aggDone,          \* TRUE once step 4 has run
    aggRuns,          \* the number of times step 4 has run on these inputs
    metrics,          \* the sorted accumulator list
    \* ---- one paginated fetcher run on its own
    fetchKind,        \* "users" (loop of lines 155-178) or "deals" (lines 193-209)
    resource,         \* the records of the remote resource, in order
    fetcher,          \* the loop's variables, see NewFetcher
    reqFailed,        \* some request has failed
    reqSucceeded,     \* some request has succeeded
    \* ---- the handler and the module variable cachedData
    cachedData,       \* the cache entry, NoEntry for null
    configured,       \* AC_API_URL and AC_API_TOKEN are set
    requests,         \* calls of the handler so far
    hPc,              \* call slot -> "idle", "computing" (await calculateMetrics), "done"
    hMethod,          \* call slot -> req.method
    hNow,             \* call slot -> the constant `now` of line 328
    hSeen,            \* call slot -> cachedData as the call read it at line 329
    hRun,             \* call slot -> the outcome of its calculateMetrics call
    hEnd,             \* call slot -> the time the response was sent
    response,         \* call slot -> the response sent
    \* ---- one calculateMetrics run from end to end
    stage,            \* "idle", "users", "deals", "tasks", "returned", "threw"
    ownerFetch,       \* index in OWNER_IDS -> the deals loop of that owner
    \* ---- fetchDealsAndTasks of the dashboard and its onProgress sink
    version,          \* which of the two fetchDealsAndTasks of dealsApi.ts runs
    progressStage,    \* "idle", "deals", "tasks", "complete", "threw"
    ownersLeft,       \* indices (index + 1) of the owners whose deals loop still runs
    completedOwners,  \* let completedOwners (line 310)
    processedDeals,   \* let processedDeals (line 360)
    emitted,          \* the last event handed to onProgress
    sink,             \* "quiet": onProgress returns; "faulty": it may throw
    \* ---- fetchTasks of the dashboard, src/src/services/tasksApi.ts
    tasksCall,        \* the arguments maxTasks and startOffset, and the number of
                      \* records the remote holds for the date filter
    tasksPhase,       \* "idle", "running" (await Promise.all), "returned"
    batchAt,          \* worker -> batchIndex of the page it awaits
    batchDone,        \* worker -> TRUE once its async function has returned
    workerCount,      \* worker -> workerTasks.length
    offsets,          \* bag of the offsets requested so far
    tasksLength       \* tasks.length

limiterVars == <<queue, activeRequests, lastRequestTime, sleeping, calls, inFlight, started,
                 settled, probe>>
poolVars == <<allDeals, poolPhase, workerAt, workerDone, workerTasks, allTasks, requested,
              completed, failedDeals>>
aggVars == <<userMap, tzOffset, aggDone, aggRuns, metrics>>
fetchVars == <<fetchKind, resource, fetcher, reqFailed, reqSucceeded>>
handlerVars == <<cachedData, configured, requests, hPc, hMethod, hNow, hSeen, hRun, hEnd, response>>
pipeVars == <<stage, ownerFetch>>
progressVars == <<version, progressStage, ownersLeft, completedOwners, processedDeals, emitted,
                  sink>>
tasksVars == <<tasksCall, tasksPhase, batchAt, batchDone, workerCount, offsets, tasksLength>>
vars == <<now, limiterVars, poolVars, aggVars, fetchVars, handlerVars, pipeVars, progressVars,
          tasksVars>>

(***************************************************************************)
(* RateLimiter                                                             *)
(***************************************************************************)
\* no call is observed: call is the number of the throttle() call to follow,
\* at is where that call stands, wake the time its timer fires, starts the
\* number of times its operation was invoked, fn how its operation ended
\* lead is a second call followed, made before the observed one (0: none)
NoProbe ==
    [call |-> 0, at |-> "none", wake |-> 0, starts |-> 0, fn |-> "none",
     lead |-> 0, leadAt |-> "none", leadWake |-> 0, bothQueued |-> FALSE]

\* which of the followed calls call number n is
Who(n, p) == IF n = p.call THEN "probe" ELSE IF n = p.lead THEN "lead" ELSE "other"

Callers == {"probe", "lead", "other"}

\* the followed calls suspended in a timer that fires at t, in execution
Sleepers(p, t) ==
    (IF p.at = "sleeping" /\ p.wake = t THEN 1 ELSE 0)
    + (IF p.leadAt = "sleeping" /\ p.leadWake = t THEN 1 ELSE 0)

Runners(p) ==
    (IF p.at = "running" THEN 1 ELSE 0) + (IF p.leadAt = "running" THEN 1 ELSE 0)

LimiterInit ==
    /\ queue = <<>>
    /\ activeRequests = 0
    /\ lastRequestTime = 0
    /\ sleeping = EmptyBag
    /\ calls = 0
    /\ inFlight = 0
    /\ started = 0
    /\ settled = 0
    /\ probe = NoProbe

\* execute, lines 12-24, entered while `active` requests are counted and `flying`
\* wrapped operations are unsettled: it suspends in setTimeout when the last
\* start is less than minInterval ago, and otherwise invokes the operation at once.
\* p is the record of the followed calls, who says which call is executing
Execute(active, flying, p, who) ==
    LET timeSinceLastRequest == now - lastRequestTime IN
    IF timeSinceLastRequest < minInterval
    THEN /\ sleeping' = sleeping (+) SetToBag({now + (minInterval - timeSinceLastRequest)})
         /\ activeRequests' = active
         /\ inFlight' = flying
         /\ probe' = IF who = "probe"
                     THEN [p EXCEPT !.at = "sleeping",
                                    !.wake = now + (minInterval - timeSinceLastRequest)]
                     ELSE IF who = "lead"
                     THEN [p EXCEPT !.leadAt = "sleeping",
                                    !.leadWake = now + (minInterval - timeSinceLastRequest)]
                     ELSE p
         /\ UNCHANGED <<lastRequestTime, started>>
    ELSE /\ lastRequestTime' = now
         /\ activeRequests' = active + 1
         /\ inFlight' = flying + 1
         /\ started' = started + 1
         /\ probe' = IF who = "probe" THEN [p EXCEPT !.at = "running", !.starts = @ + 1]
                     ELSE IF who = "lead" THEN [p EXCEPT !.leadAt = "running"]
                     ELSE p
         /\ UNCHANGED sleeping

\* the last slot is never given out
AdmitsBelowLast(active) == active + 1 < maxConcurrent

\* line 34: this.activeRequests < this.maxConcurrent
Admits(active) == active < maxConcurrent

\* throttle(fn), lines 10-40; the call is a followed one when its number is
\* one the probe names
Throttle ==
    /\ calls < MaxCalls
    /\ calls' = calls + 1
    /\ LET who == Who(calls + 1, probe) IN
       IF Admits(activeRequests)
       THEN /\ Execute(activeRequests, inFlight, probe, who)
            /\ UNCHANGED queue
       ELSE /\ queue' = Append(queue, calls + 1)
            /\ probe' = IF who = "probe"
                        THEN [probe EXCEPT !.at = "queued",
                                           !.bothQueued = (probe.leadAt = "queued")]
                        ELSE IF who = "lead" THEN [probe EXCEPT !.leadAt = "queued"]
                        ELSE probe
            /\ UNCHANGED <<activeRequests, lastRequestTime, sleeping, inFlight, started>>
    /\ UNCHANGED <<now, settled, poolVars, aggVars, fetchVars, handlerVars, pipeVars, progressVars, tasksVars>>

\* the timer of line 17 fires and execute resumes: lines 20-24.  Of the timers
\* that have expired any one may fire first
WakeUp ==
    /\ \E t \in BagToSet(sleeping), who \in Callers :
          /\ t <= now
          /\ CASE who = "probe" -> probe.at = "sleeping" /\ probe.wake = t
               [] who = "lead" -> probe.leadAt = "sleeping" /\ probe.leadWake = t
               [] OTHER -> CopiesIn(t, sleeping) > Sleepers(probe, t)
          /\ sleeping' = sleeping (-) SetToBag({t})
          /\ probe' = IF who = "probe" THEN [probe EXCEPT !.at = "running", !.starts = @ + 1]
                      ELSE IF who = "lead" THEN [probe EXCEPT !.leadAt = "running"]
                      ELSE probe
    /\ lastRequestTime' = now
    /\ activeRequests' = activeRequests + 1
    /\ inFlight' = inFlight + 1
    /\ started' = started + 1
    /\ UNCHANGED <<now, queue, calls, settled, poolVars, aggVars, fetchVars, handlerVars,
                   pipeVars, progressVars, tasksVars>>

\* the counter is decremented only when the operation succeeded
AfterTry(active, ok) == IF ok THEN active - 1 ELSE active

\* finally { this.activeRequests-- }, line 29, after resolve (ok) or reject
AfterFinally(active, ok) == active - 1

\* the queue is served only while it holds more than one closure
CanDequeueButLast(q, active) == Len(q) > 1 /\ active < maxConcurrent

\* processQueue, line 43: this.queue.length > 0 && this.activeRequests < this.maxConcurrent
CanDequeue(q, active) == Len(q) > 0 /\ active < maxConcurrent

\* the wrapped operation settles, with a result (ok) or a failure: lines 25-31,
\* then processQueue, lines 42-47
Complete ==
    /\ \E who \in Callers, ok \in BOOLEAN :
          /\ CASE who = "probe" -> probe.at = "running"
               [] who = "lead" -> probe.leadAt = "running"
               [] OTHER -> inFlight > Runners(probe)
          /\ LET p == IF who = "probe"
                      THEN [probe EXCEPT !.fn = IF ok THEN "ok" ELSE "fail",
                                         !.at = IF ok THEN "resolved" ELSE "rejected"]
                      ELSE IF who = "lead" THEN [probe EXCEPT !.leadAt = "done"]
                      ELSE probe
                 active == AfterFinally(activeRequests, ok)
             IN IF CanDequeue(queue, active)
                THEN /\ queue' = Tail(queue)
                     /\ Execute(active, inFlight - 1, p, Who(Head(queue), p))
                ELSE /\ activeRequests' = active
                     /\ inFlight' = inFlight - 1
                     /\ probe' = p
                     /\ UNCHANGED <<queue, lastRequestTime, sleeping, started>>
    /\ settled' = settled + 1
    /\ UNCHANGED <<now, calls, poolVars, aggVars, fetchVars, handlerVars, pipeVars, progressVars, tasksVars>>

\* time passes
Tick ==
    /\ now < Epoch + MaxTicks * TimeStep
    /\ now' = now + TimeStep
    /\ UNCHANGED <<limiterVars, poolVars, aggVars, fetchVars, handlerVars, pipeVars, progressVars, tasksVars>>

(***************************************************************************)
(* The remote API (environment).  A request either fails or returns the    *)
(* records below.                                                          *)
(***************************************************************************)
OWNER_IDS == <<"58", "74", "85", "89", "95", "96", "111", "117", "18">>

\* JavaScript values of the fields of a task: status is a number or a string,
\* duedate a string or null
NumberOne == "number:1"
NumberZero == "number:0"
StringOne == "string:1"
Null == "null"

\* deal number n of the remote: deals alternate between the first two owners
RemoteDeal(n) == [id |-> n, owner |-> OWNER_IDS[1 + (n % 2)]]

\* GET /api/3/deals/<id>/tasks: data.dealTasks of a successful response
RemoteDealTasks(dealId) ==
    CASE dealId = 1 -> << [id |-> 11, status |-> StringOne, duedate |-> "2024-12-31"],
                          [id |-> 12, status |-> NumberZero, duedate |-> Null] >>
      [] dealId = 2 -> << [id |-> 21, status |-> NumberZero, duedate |-> "2024-12-31"] >>
      [] OTHER -> << >>

(***************************************************************************)
(* Worker pool: task-metrics.ts lines 220-255, dealsApi.ts lines 360-412   *)
(***************************************************************************)
Workers == 0 .. NumWorkers - 1

\* the deals whose failures are recorded: the ones that have tasks
ObservedDeals == {1, 2}

Min(a, b) == IF a < b THEN a ELSE b

\* Math.floor in place of Math.ceil
BatchSizeFloor(n) == n \div NumWorkers

\* Math.ceil(allDeals.length / 20)
BatchSize(n) == (n + NumWorkers - 1) \div NumWorkers

StartIndex(w, n) == w * BatchSize(n)

\* the end of the slice is not clamped to the length of the list
EndIndexUnclamped(w, n) == StartIndex(w, n) + BatchSize(n)

\* Math.min(startIndex + batchSize, allDeals.length)
EndIndex(w, n) == Min(StartIndex(w, n) + BatchSize(n), n)

\* data.dealTasks.map(task => ({ ..., dealId: deal.id }))
TagTasks(tasks, dealId) ==
    [k \in 1 .. Len(tasks) |->
        [id |-> tasks[k].id, status |-> tasks[k].status,
         duedate |-> tasks[k].duedate, dealId |-> dealId]]

\* workerResults.forEach(tasks => allTasks.push(...tasks)), workers w .. 19
RECURSIVE ConcatFrom(_, _)
ConcatFrom(lists, w) ==
    IF w >= NumWorkers THEN << >> ELSE lists[w] \o ConcatFrom(lists, w + 1)

PoolIdle(deals) ==
    /\ allDeals = deals
    /\ poolPhase = "idle"
    /\ workerAt = [w \in Workers |-> 0]
    /\ workerDone = [w \in Workers |-> FALSE]
    /\ workerTasks = [w \in Workers |-> << >>]
    /\ allTasks = << >>
    /\ requested = EmptyBag
    /\ completed = EmptyBag
    /\ failedDeals = {}

\* the worker hands its whole slice to the limiter before it awaits
WholeSlice(w, n) == StartIndex(w, n) .. EndIndex(w, n) - 1

\* the indices worker w has requested when it reaches its first await, line
\* 233: the first of its slice, if the slice is not empty
FirstRequests(w, n) ==
    IF StartIndex(w, n) < EndIndex(w, n) THEN {StartIndex(w, n)} ELSE {}

\* Array.from({ length: 20 }, async ...) over the list `deals`: every worker
\* runs up to its first await
StartWorkersOn(deals) ==
    /\ poolPhase = "idle"
    /\ poolPhase' = "running"
    /\ LET n == Len(deals) IN
       /\ workerAt' = [w \in Workers |-> StartIndex(w, n)]
       /\ workerDone' = [w \in Workers |-> ~(StartIndex(w, n) < EndIndex(w, n))]
       /\ requested' = SetToBag(UNION {FirstRequests(w, n) : w \in Workers})
    /\ UNCHANGED <<workerTasks, allTasks, completed, failedDeals>>

StartWorkers ==
    /\ StartWorkersOn(allDeals)
    /\ UNCHANGED allDeals

\* a failed request ends the loop
LoopGoesOnIfOk(i, endIndex, ok) == ok /\ i + 1 < endIndex

\* for (...; i < endIndex; i++) around the try/catch of lines 231-247: the loop
\* goes on after a request that returned (ok) and after one that failed
LoopGoesOn(i, endIndex, ok) == i + 1 < endIndex

\* the request of worker w for deal i settles; the loop goes on to i + 1
WorkerResume(w, ok) ==
    /\ poolPhase = "running"
    /\ ~workerDone[w]
    /\ LET n == Len(allDeals)
           i == workerAt[w]
           deal == allDeals[i + 1]
           dealTasks == RemoteDealTasks(deal.id)
       IN
       /\ workerTasks' =
            IF ok /\ Len(dealTasks) > 0
            THEN [workerTasks EXCEPT ![w] = @ \o TagTasks(dealTasks, deal.id)]
            ELSE workerTasks
       /\ workerAt' = [workerAt EXCEPT ![w] = i + 1]
       /\ completed' = completed (+) SetToBag({i})
       /\ failedDeals' = IF ~ok /\ deal.id \in ObservedDeals
                         THEN failedDeals \cup {deal.id} ELSE failedDeals
       /\ IF LoopGoesOn(i, EndIndex(w, n), ok)
          THEN /\ requested' = requested (+) SetToBag({i + 1})
               /\ UNCHANGED workerDone
          ELSE /\ workerDone' = [workerDone EXCEPT ![w] = TRUE]
               /\ UNCHANGED requested
    /\ UNCHANGED <<allDeals, poolPhase, allTasks>>

\* the first worker to return resumes the caller
PromiseAny(done) == \E w \in Workers : done[w]

\* Promise.all(workers), line 253, is fulfilled when every worker has returned;
\* no worker rejects, its loop body being inside try/catch
PromiseAll(done) == \A w \in Workers : done[w]

\* await Promise.all(workers) resumes: lines 253-254
JoinWorkers ==
    /\ poolPhase = "running"
    /\ PromiseAll(workerDone)
    /\ poolPhase' = "joined"
    /\ allTasks' = ConcatFrom(workerTasks, 0)
    /\ UNCHANGED <<allDeals, workerAt, workerDone, workerTasks, requested, completed,
                   failedDeals>>

(***************************************************************************)
(* Display names.  A string is the sequence of its tokens (words, blanks   *)
(* and the delimiter), so that split and trim act on it.                   *)
(***************************************************************************)
Blank == " "
Bar == "|"

\* the tokens in the order of String.prototype.localeCompare
TokenOrder ==
    << Blank, Bar, "111", "117", "16", "18", "58", "74", "85", "89", "95", "96",
       "ana@gcs.io", "Ana", "Citizen", "GCS", "Global", "Jane", "Operator",
       "Solutions", "User" >>

TokenRank(tok) == CHOOSE r \in 1 .. Len(TokenOrder) : TokenOrder[r] = tok

\* a.localeCompare(b) <= 0
RECURSIVE NameLeq(_, _)
NameLeq(a, b) ==
    IF a = << >> THEN TRUE
    ELSE IF b = << >> THEN FALSE
    ELSE IF Head(a) = Head(b) THEN NameLeq(Tail(a), Tail(b))
    ELSE TokenRank(Head(a)) < TokenRank(Head(b))

\* String.prototype.trim
RECURSIVE TrimStart(_)
TrimStart(str) ==
    IF str # << >> /\ Head(str) = Blank THEN TrimStart(Tail(str)) ELSE str

RECURSIVE TrimEnd(_)
TrimEnd(str) ==
    IF str # << >> /\ str[Len(str)] = Blank
    THEN TrimEnd(SubSeq(str, 1, Len(str) - 1))
    ELSE str

Trim(str) == TrimEnd(TrimStart(str))

\* no name is truncated
IncludesNoBar(str) == FALSE

\* str.includes('|')
IncludesBar(str) == \E k \in 1 .. Len(str) : str[k] = Bar

\* str.split('|')[0]
RECURSIVE BeforeBar(_)
BeforeBar(str) ==
    IF str = << >> \/ Head(str) = Bar THEN << >> ELSE <<Head(str)>> \o BeforeBar(Tail(str))

\* String.prototype.toLowerCase on the words that have capitals
LowerWords ==
    [Ana |-> "ana", Citizen |-> "citizen", GCS |-> "gcs", Global |-> "global",
     Jane |-> "jane", Operator |-> "operator", Solutions |-> "solutions", User |-> "user"]

toLowerCase(str) ==
    [k \in 1 .. Len(str) |->
        IF str[k] \in DOMAIN LowerWords THEN LowerWords[str[k]] ELSE str[k]]

\* str.includes(part)
includes(str, part) ==
    \E k \in 0 .. Len(str) - Len(part) :
        \A j \in 1 .. Len(part) : str[k + j] = part[j]

\* shouldExcludeOwner of src/utils/nameUtils.ts
shouldExcludeOwner(fullName, ownerId) ==
    IF ownerId = "16" THEN TRUE
    ELSE LET cleanName == toLowerCase(fullName)
         IN includes(cleanName,
                     <<"global", Blank, "citizen", Blank, "solutions", Blank, "operator">>)

\* cleanOwnerName, lines 109-113
cleanOwnerName(fullName) ==
    IF fullName = << >> THEN << >> ELSE Trim(BeforeBar(fullName))

\* `User ${id}`
UserLabel(id) == <<"User", Blank, id>>

\* lines 161-170: the display name stored for a user record
DisplayName(user) ==
    LET fullName == Trim(user.firstName \o <<Blank>> \o user.lastName)
        cleanName == IF IncludesBar(fullName) THEN Trim(BeforeBar(fullName)) ELSE fullName
    IN IF cleanName # << >> THEN cleanName
       ELSE IF user.email # << >> THEN user.email
       ELSE UserLabel(user.id)

\* userMap.set(user.id, cleanName) for the users of a page, in order
RECURSIVE SetUsers(_, _)
SetUsers(map, users) ==
    IF users = << >> THEN map
    ELSE LET u == Head(users)
             rest == [id \in DOMAIN map \ {u.id} |-> map[id]]
         IN SetUsers(rest @@ (u.id :> DisplayName(u)), Tail(users))

(***************************************************************************)
(* Dates.  Instants are milliseconds since 2024-12-30T00:00Z.              *)
(***************************************************************************)
HourMs == 60 * 60 * 1000
DayMs == 24 * HourMs

\* the date strings new Date() parses, by day number
DateStrings == <<"2024-12-31", "2025-01-01", "2025-01-02">>

\* new Date(str): a date-only ISO string is midnight UTC of that day; any other
\* string gives an Invalid Date (no exception is thrown)
NewDate(str) ==
    IF \E d \in 1 .. Len(DateStrings) : DateStrings[d] = str
    THEN [valid |-> TRUE, time |-> DayMs * (CHOOSE d \in 1 .. Len(DateStrings) : DateStrings[d] = str)]
    ELSE [valid |-> FALSE, time |-> 0]

\* today = new Date(); today.setHours(0, 0, 0, 0), read at instant t
Today(t, tz) == [valid |-> TRUE, time |-> ((t + tz) \div DayMs) * DayMs - tz]

\* a < b and a >= b on Date objects: both are false when either is invalid
DateLess(a, b) == a.valid /\ b.valid /\ a.time < b.time
DateGeq(a, b) == a.valid /\ b.valid /\ a.time >= b.time

\* !task.duedate is true for null and for the empty string
NoDueDate(task) == task.duedate = Null \/ task.duedate = ""

\* only the number 1 counts as completed
isCompleteNumberOnly(task) == task.status = NumberOne

\* task.status === 1 || task.status === '1'
isComplete(task) == task.status = NumberOne \/ task.status = StringOne

\* lines 115-128, the clock read at instant t
isTaskOverdue(task, t, tz) ==
    IF isComplete(task) THEN FALSE
    ELSE IF NoDueDate(task) THEN FALSE
    ELSE DateLess(NewDate(task.duedate), Today(t, tz))

\* lines 130-143, the clock read at instant t
isTaskFutureDueDate(task, t, tz) ==
    IF isComplete(task) THEN FALSE
    ELSE IF NoDueDate(task) THEN FALSE
    ELSE DateGeq(NewDate(task.duedate), Today(t, tz))

(***************************************************************************)
(* Aggregation: calculateMetrics step 4, lines 257-305.  clk gives the     *)
(* instants at which isTaskOverdue and isTaskFutureDueDate read the clock  *)
(* and the time zone of the process.                                       *)
(***************************************************************************)
NewMetric(ownerId, name) ==
    [owner |-> name, ownerId |-> ownerId, total |-> 0, completed |-> 0,
     overdue |-> 0, openFutureDueDate |-> 0, openNoDueDate |-> 0]

\* lines 282-296 for one task
CountTask(metric, task, clk) ==
    LET m == [metric EXCEPT !.total = @ + 1] IN
    IF isComplete(task) THEN [m EXCEPT !.completed = @ + 1]
    ELSE IF NoDueDate(task) THEN [m EXCEPT !.openNoDueDate = @ + 1]
    ELSE IF isTaskOverdue(task, clk.overdue, clk.tz) THEN [m EXCEPT !.overdue = @ + 1]
    ELSE IF isTaskFutureDueDate(task, clk.future, clk.tz) THEN [m EXCEPT !.openFutureDueDate = @ + 1]
    ELSE m

\* lines 279-297: the tasks of one deal, in list order
RECURSIVE CountDealTasks(_, _, _, _)
CountDealTasks(metric, tasks, dealId, clk) ==
    IF tasks = << >> THEN metric
    ELSE CountDealTasks(
            IF Head(tasks).dealId = dealId THEN CountTask(metric, Head(tasks), clk) ELSE metric,
            Tail(tasks), dealId, clk)

\* every deal starts a new accumulator
hasNever(map, ownerId) == FALSE

\* metricsMap.has(ownerId)
has(map, ownerId) == ownerId \in DOMAIN map

\* lines 261-298: acc is metricsMap as [order: owner ids in insertion order,
\* of: owner id -> accumulator]
RECURSIVE AggregateDeals(_, _, _, _, _)
AggregateDeals(acc, deals, tasks, users, clk) ==
    IF deals = << >> THEN acc
    ELSE LET deal == Head(deals)
             ownerId == deal.owner
             ownerName == IF ownerId \in DOMAIN users /\ users[ownerId] # << >>
                          THEN users[ownerId] ELSE UserLabel(ownerId)
             withOwner == IF has(acc.of, ownerId) THEN acc
                          ELSE [order |-> Append(acc.order, ownerId),
                                of |-> acc.of @@ (ownerId :> NewMetric(ownerId, cleanOwnerName(ownerName)))]
             counted == CountDealTasks(withOwner.of[ownerId], tasks, deal.id, clk)
         IN AggregateDeals(
                [withOwner EXCEPT !.of = [o \in DOMAIN withOwner.of |->
                                            IF o = ownerId THEN counted ELSE withOwner.of[o]]],
                Tail(deals), tasks, users, clk)

\* the accumulators compared by owner id
compareOwnerIds(a, b) == NameLeq(<<a.ownerId>>, <<b.ownerId>>)

\* (a, b) => a.owner.localeCompare(b.owner) <= 0, line 301
compareOwners(a, b) == NameLeq(a.owner, b.owner)

\* Array.prototype.sort with the comparator of line 301: stable
RECURSIVE InsertSorted(_, _)
InsertSorted(sorted, m) ==
    IF sorted = << >> THEN <<m>>
    ELSE IF compareOwners(Head(sorted), m)
         THEN <<Head(sorted)>> \o InsertSorted(Tail(sorted), m)
         ELSE <<m>> \o sorted

RECURSIVE SortByOwner(_)
SortByOwner(list) ==
    IF list = << >> THEN << >>
    ELSE InsertSorted(SortByOwner(SubSeq(list, 1, Len(list) - 1)), list[Len(list)])

\* the accumulators of the previous run are kept
keptMap(prev) ==
    [order |-> [k \in 1 .. Len(prev) |-> prev[k].ownerId],
     of |-> [o \in {prev[k].ownerId : k \in 1 .. Len(prev)} |->
                prev[CHOOSE k \in 1 .. Len(prev) : prev[k].ownerId = o]]]

\* const metricsMap = new Map(), line 259: local to the call, whatever the
\* previous call returned
newMap(prev) == [order |-> << >>, of |-> << >>]

\* lines 259-305; prev is the list returned by the previous call
Aggregate(prev, deals, tasks, users, clk) ==
    LET acc == AggregateDeals(newMap(prev), deals, tasks, users, clk)
    IN SortByOwner([k \in 1 .. Len(acc.order) |-> acc.of[acc.order[k]]])

AggIdle ==
    /\ userMap = << >>
    /\ tzOffset = 0
    /\ aggDone = FALSE
    /\ aggRuns = 0
    /\ metrics = << >>

\* step 4 runs (again, when it has run before); the clock may advance between
\* the two reads
Aggregation ==
    /\ poolPhase = "joined"
    /\ aggRuns < MaxAggRuns
    /\ \E later \in {now, now + 1} :
          /\ now' = later
          /\ metrics' = Aggregate(metrics, allDeals, allTasks, userMap,
                                   [overdue |-> now, future |-> later, tz |-> tzOffset])
    /\ aggDone' = TRUE
    /\ aggRuns' = aggRuns + 1
    /\ UNCHANGED <<userMap, tzOffset>>

(***************************************************************************)
(* Paginated fetcher: the users loop, task-metrics.ts lines 151-178 and    *)
(* tasksApi.ts lines 82-127, and the per-owner deals loop, task-metrics.ts *)
(* lines 188-211 and dealsApi.ts lines 310-331.                            *)
(***************************************************************************)
\* GET <endpoint>?limit=<limit>&offset=<offset>: the page of a successful response
RemotePage(res, offset) == SubSeq(res, offset + 1, Min(offset + limit, Len(res)))

\* let offset = 0; let hasMore = true; the records accumulated; the offsets
\* requested so far; where the loop stands
NewFetcher ==
    [offset |-> 0, hasMore |-> TRUE, records |-> << >>, requests |-> << >>,
     status |-> "idle"]

\* while (hasMore): the next request is handed to the limiter, or the loop ends
LoopTest(f) ==
    IF f.hasMore
    THEN [f EXCEPT !.requests = Append(@, f.offset), !.status = "awaiting"]
    ELSE [f EXCEPT !.status = "returned"]

\* the loop goes on for as long as a page is not empty
PageReceivedUntilEmpty(f, res) ==
    LET page == RemotePage(res, f.offset) IN
    IF Len(page) > 0
    THEN LoopTest([f EXCEPT !.records = @ \o page, !.offset = @ + limit, !.hasMore = TRUE])
    ELSE LoopTest([f EXCEPT !.hasMore = FALSE])

\* lines 160-177 and 198-204: the awaited request returned a page
PageReceived(f, res) ==
    LET page == RemotePage(res, f.offset) IN
    IF Len(page) > 0
    THEN LoopTest([f EXCEPT !.records = @ \o page,
                            !.offset = @ + limit,
                            !.hasMore = (Len(page) = limit)])
    ELSE LoopTest([f EXCEPT !.hasMore = FALSE])

\* the failure is not passed on: the awaited promise is never settled
PageFailedLost(f, kind) == [f EXCEPT !.status = "lost"]

\* both loops catch the failure and keep what they have
PageFailedCaught(f, kind) == LoopTest([f EXCEPT !.hasMore = FALSE])

\* the awaited request failed: the deals loop catches (lines 205-208), the
\* users loop has no handler and the failure leaves the loop
PageFailed(f, kind) ==
    IF kind = "deals"
    THEN LoopTest([f EXCEPT !.hasMore = FALSE])
    ELSE [f EXCEPT !.status = "threw"]

FetchIdle ==
    /\ fetchKind = "users"
    /\ resource = << >>
    /\ fetcher = NewFetcher
    /\ reqFailed = FALSE
    /\ reqSucceeded = FALSE

\* the loop is entered
FetchStart ==
    /\ fetcher.status = "idle"
    /\ fetcher' = LoopTest(fetcher)
    /\ UNCHANGED <<fetchKind, resource, reqFailed, reqSucceeded>>

\* the awaited request settles
FetchResume(ok) ==
    /\ fetcher.status = "awaiting"
    /\ fetcher' = IF ok THEN PageReceived(fetcher, resource) ELSE PageFailed(fetcher, fetchKind)
    /\ reqFailed' = (reqFailed \/ ~ok)
    /\ reqSucceeded' = (reqSucceeded \/ ok)
    /\ UNCHANGED <<fetchKind, resource>>

(***************************************************************************)
(* The handler of /api/task-metrics and the module variable cachedData,    *)
(* task-metrics.ts lines 88-89 and 308-360.                                *)
(***************************************************************************)
CACHE_DURATION == 60 * 60 * 1000

Handlers == 1 .. MaxHandlers

\* let cachedData = null
NoEntry == [present |-> FALSE, metrics |-> << >>, timestamp |-> 0]

NoResponse == [status |-> 0, cached |-> FALSE, metrics |-> << >>, at |-> 0, error |-> ""]

NoRun == [ran |-> FALSE, threw |-> FALSE, metrics |-> << >>]

\* a cached entry is served up to and including the end of the TTL
FreshInclusive(entry, t) == entry.present /\ (t - entry.timestamp) <= CACHE_DURATION

\* line 329: cachedData && (now - cachedData.timestamp) < CACHE_DURATION
Fresh(entry, t) == entry.present /\ (t - entry.timestamp) < CACHE_DURATION

\* the module has just been loaded; env says whether the two variables of
\* lines 319-320 are set in the deployment
HandlerInit(env) ==
    /\ cachedData = NoEntry
    /\ configured = env
    /\ requests = 0
    /\ hPc = [h \in Handlers |-> "idle"]
    /\ hMethod = [h \in Handlers |-> "GET"]
    /\ hNow = [h \in Handlers |-> 0]
    /\ hSeen = [h \in Handlers |-> NoEntry]
    /\ hRun = [h \in Handlers |-> NoRun]
    /\ hEnd = [h \in Handlers |-> 0]
    /\ response = [h \in Handlers |-> NoResponse]

HandlerIdle == HandlerInit(TRUE)

\* the configuration is taken to be there whatever the environment holds
ConfigNeverMissing(env) == FALSE

\* line 322: !AC_API_URL || !AC_API_TOKEN
ConfigMissing(env) == ~env

\* the handler is called, lines 308-340: it answers at once (OPTIONS, missing
\* configuration, fresh cache entry) or suspends in await calculateMetrics
HandlerEnter(h, method) ==
    /\ requests < MaxRequests
    /\ hPc[h] # "computing"
    /\ requests' = requests + 1
    /\ hMethod' = [hMethod EXCEPT ![h] = method]
    /\ hNow' = [hNow EXCEPT ![h] = now]
    /\ hSeen' = [hSeen EXCEPT ![h] = cachedData]
    /\ hRun' = [hRun EXCEPT ![h] = NoRun]
    /\ hEnd' = [hEnd EXCEPT ![h] = now]
    /\ IF method = "OPTIONS"
       THEN /\ response' = [response EXCEPT ![h] = [NoResponse EXCEPT !.status = 200]]
            /\ hPc' = [hPc EXCEPT ![h] = "done"]
       ELSE IF ConfigMissing(configured)
       THEN /\ response' = [response EXCEPT ![h] =
                  [NoResponse EXCEPT !.status = 500, !.error = "API configuration missing"]]
            /\ hPc' = [hPc EXCEPT ![h] = "done"]
       ELSE IF Fresh(cachedData, now)
       THEN /\ response' = [response EXCEPT ![h] =
                  [status |-> 200, cached |-> TRUE, metrics |-> cachedData.metrics,
                   at |-> cachedData.timestamp, error |-> ""]]
            /\ hPc' = [hPc EXCEPT ![h] = "done"]
       ELSE /\ response' = [response EXCEPT ![h] = NoResponse]
            /\ hPc' = [hPc EXCEPT ![h] = "computing"]
    /\ UNCHANGED <<cachedData, configured>>

\* the entry is stored before its payload
EmptyEntry(result, t) == [present |-> TRUE, metrics |-> << >>, timestamp |-> t]

\* lines 343-346: cachedData = { metrics, timestamp: now }, one assignment
NewEntry(result, t) == [present |-> TRUE, metrics |-> result, timestamp |-> t]

\* a failed computation also drops the cache entry
HandlerResumeClearing(h, threw, result) ==
    /\ hPc[h] = "computing"
    /\ hPc' = [hPc EXCEPT ![h] = "done"]
    /\ hEnd' = [hEnd EXCEPT ![h] = now]
    /\ hRun' = [hRun EXCEPT ![h] =
          [ran |-> TRUE, threw |-> threw, metrics |-> IF threw THEN << >> ELSE result]]
    /\ IF threw
       THEN /\ response' = [response EXCEPT ![h] =
                  [NoResponse EXCEPT !.status = 500, !.error = "Failed to calculate task metrics"]]
            /\ cachedData' = NoEntry
       ELSE /\ cachedData' = [present |-> TRUE, metrics |-> result, timestamp |-> hNow[h]]
            /\ response' = [response EXCEPT ![h] =
                  [status |-> 200, cached |-> FALSE, metrics |-> result,
                   at |-> hNow[h], error |-> ""]]
    /\ UNCHANGED <<configured, requests, hMethod, hNow, hSeen>>

\* await calculateMetrics settles, lines 340-359: with a result, which is
\* stored and returned, or with an exception, which the catch answers
HandlerResume(h, threw, result) ==
    /\ hPc[h] = "computing"
    /\ hPc' = [hPc EXCEPT ![h] = "done"]
    /\ hEnd' = [hEnd EXCEPT ![h] = now]
    /\ hRun' = [hRun EXCEPT ![h] =
          [ran |-> TRUE, threw |-> threw, metrics |-> IF threw THEN << >> ELSE result]]
    /\ IF threw
       THEN /\ response' = [response EXCEPT ![h] =
                  [NoResponse EXCEPT !.status = 500, !.error = "Failed to calculate task metrics"]]
            /\ UNCHANGED cachedData
       ELSE /\ cachedData' = NewEntry(result, hNow[h])
            /\ response' = [response EXCEPT ![h] =
                  [status |-> 200, cached |-> FALSE, metrics |-> result,
                   at |-> hNow[h], error |-> ""]]
    /\ UNCHANGED <<configured, requests, hMethod, hNow, hSeen>>

\* half a TTL passes
LongTick ==
    /\ now < Epoch + MaxLongTicks * (CACHE_DURATION \div 2)
    /\ now' = now + CACHE_DURATION \div 2

(***************************************************************************)
(* calculateMetrics from end to end, task-metrics.ts lines 145-306, one    *)
(* action per continuation.  A request handed to the rate limiter settles  *)
(* later, with a page or with a failure.                                   *)
(***************************************************************************)
Owners == 1 .. Len(OWNER_IDS)

\* GET /api/3/users
RemoteUsers ==
    << [id |-> "58", firstName |-> <<"Jane">>, lastName |-> << >>, email |-> << >>],
       [id |-> "74", firstName |-> << >>, lastName |-> <<"Ana">>, email |-> <<"ana@gcs.io">>] >>

\* GET /api/3/deals?filters[owner]=<OWNER_IDS[o]>
OwnerDeals(o) ==
    SelectSeq([k \in 1 .. MaxRemoteDeals |-> RemoteDeal(k)],
              LAMBDA d : d.owner = OWNER_IDS[o])

\* dealsByOwner.forEach(deals => allDeals.push(...deals)), line 215
RECURSIVE Flat(_, _)
Flat(fetchers, o) ==
    IF o > Len(OWNER_IDS) THEN << >> ELSE fetchers[o].records \o Flat(fetchers, o + 1)

PipeIdle ==
    /\ stage = "idle"
    /\ ownerFetch = [o \in Owners |-> NewFetcher]

\* calculateMetrics is called and runs up to its first await, lines 145-158
PipeStart ==
    /\ stage' = "users"
    /\ fetcher' = LoopTest(NewFetcher)
    /\ reqFailed' = FALSE
    /\ reqSucceeded' = FALSE
    /\ ownerFetch' = [o \in Owners |-> NewFetcher]
    /\ allDeals' = << >>
    /\ poolPhase' = "idle"
    /\ workerAt' = [w \in Workers |-> 0]
    /\ workerDone' = [w \in Workers |-> FALSE]
    /\ workerTasks' = [w \in Workers |-> << >>]
    /\ allTasks' = << >>
    /\ requested' = EmptyBag
    /\ completed' = EmptyBag
    /\ failedDeals' = {}
    /\ userMap' = << >>
    /\ aggDone' = FALSE
    /\ aggRuns' = 0
    /\ metrics' = << >>
    /\ UNCHANGED <<fetchKind, resource, tzOffset, progressVars, tasksVars>>

\* the handler is called; a cache miss calls calculateMetrics
PipeEnter(method) ==
    /\ HandlerEnter(1, method)
    /\ IF hPc'[1] = "computing"
       THEN PipeStart
       ELSE UNCHANGED <<poolVars, aggVars, fetchVars, pipeVars, progressVars, tasksVars>>
    /\ UNCHANGED <<now, limiterVars>>

\* a users page settles, lines 155-178; when the loop has ended the owners'
\* deals loops are started, each up to its first await, lines 184-198
PipeUsersResume(ok) ==
    /\ stage = "users"
    /\ FetchResume(ok)
    /\ IF fetcher'.status = "returned"
       THEN /\ userMap' = SetUsers(<< >>, fetcher'.records)
            /\ ownerFetch' = [o \in Owners |-> LoopTest(NewFetcher)]
            /\ stage' = "deals"
       ELSE /\ stage' = IF fetcher'.status = "threw" THEN "threw" ELSE stage
            /\ UNCHANGED <<userMap, ownerFetch>>
    /\ UNCHANGED <<now, limiterVars, poolVars, tzOffset, aggDone, aggRuns, metrics,
                   handlerVars, progressVars, tasksVars>>

\* a deals page of owner o settles, lines 193-213
PipeOwnerResume(o, ok) ==
    /\ stage = "deals"
    /\ ownerFetch[o].status = "awaiting"
    /\ ownerFetch' = [ownerFetch EXCEPT ![o] =
          IF ok THEN PageReceived(@, OwnerDeals(o)) ELSE PageFailed(@, "deals")]
    /\ reqFailed' = (reqFailed \/ ~ok)
    /\ reqSucceeded' = (reqSucceeded \/ ok)
    /\ UNCHANGED <<now, limiterVars, poolVars, aggVars, fetchKind, resource, fetcher,
                   handlerVars, stage, progressVars, tasksVars>>

\* await Promise.all(ownerDealsPromises) resumes, lines 215-251: the lists
\* are flattened and the workers started
PipeDealsJoined ==
    /\ stage = "deals"
    /\ \A o \in Owners : ownerFetch[o].status = "returned"
    /\ allDeals' = Flat(ownerFetch, 1)
    /\ StartWorkersOn(Flat(ownerFetch, 1))
    /\ stage' = "tasks"
    /\ UNCHANGED <<now, limiterVars, aggVars, fetchVars, handlerVars, ownerFetch,
                   progressVars, tasksVars>>

\* the request of worker w settles, lines 231-247
PipeWorkerResume(w, ok) ==
    /\ stage = "tasks"
    /\ WorkerResume(w, ok)
    /\ reqFailed' = (reqFailed \/ ~ok)
    /\ reqSucceeded' = (reqSucceeded \/ ok)
    /\ UNCHANGED <<now, limiterVars, aggVars, fetchKind, resource, fetcher,
                   handlerVars, pipeVars, progressVars, tasksVars>>

\* await Promise.all(workers) resumes, lines 253-305: the partial results are
\* combined, the counts aggregated and sorted, and the list returned
PipeFinish ==
    /\ stage = "tasks"
    /\ poolPhase = "running"
    /\ PromiseAll(workerDone)
    /\ poolPhase' = "joined"
    /\ allTasks' = ConcatFrom(workerTasks, 0)
    /\ \E later \in {now, now + 1} :
          /\ now' = later
          /\ metrics' = Aggregate(metrics, allDeals, ConcatFrom(workerTasks, 0), userMap,
                                   [overdue |-> now, future |-> later, tz |-> tzOffset])
    /\ aggDone' = TRUE
    /\ aggRuns' = 1
    /\ stage' = "returned"
    /\ UNCHANGED <<limiterVars, allDeals, workerAt, workerDone, workerTasks, requested,
                   completed, failedDeals,
                   userMap, tzOffset, fetchVars, handlerVars, ownerFetch, progressVars, tasksVars>>

\* await calculateMetrics settles in the handler, lines 340-359
PipeHandlerResume ==
    /\ stage \in {"returned", "threw"}
    /\ HandlerResume(1, stage = "threw", metrics)
    /\ UNCHANGED <<now, limiterVars, poolVars, aggVars, fetchVars, pipeVars, progressVars, tasksVars>>

(***************************************************************************)
(* fetchDealsAndTasks of the dashboard, src/src/services/dealsApi.ts, and  *)
(* the events it hands to onProgress.  The file holds the function twice:  *)
(* "first" is the one of lines 85-205, "second" the one of lines 291-425.  *)
(* A percentage is kept as the fraction num / den the code computes.       *)
(***************************************************************************)
Versions == {"first", "second"}

Pct(num, den) == [num |-> num, den |-> den]

\* a <= b on percentages
PctLeq(a, b) == a.num * b.den <= b.num * a.den

\* the order of the phases of LoadingProgress, src/src/types/tasks.ts
PhaseRank(phase) ==
    CASE phase = "idle" -> 0
      [] phase = "users" -> 1
      [] phase = "deals" -> 1
      [] phase = "tasks" -> 2
      [] phase = "processing" -> 3
      [] phase = "complete" -> 4

NoEvent == [phase |-> "idle", current |-> 0, total |-> 0, percentage |-> Pct(0, 1)]

ProgressIdle ==
    /\ version = "second"
    /\ progressStage = "idle"
    /\ ownersLeft = {}
    /\ completedOwners = 0
    /\ processedDeals = 0
    /\ emitted = NoEvent
    /\ sink = "quiet"

\* onProgress(event): the event is handed to the sink
onProgress(event) == emitted' = event

\* what a call of the sink can do: return (FALSE) or throw (TRUE)
SinkThrows == IF sink = "faulty" THEN BOOLEAN ELSE {FALSE}

\* phase of the owners' events: 'users' at lines 93 and 126, 'deals' at 299, 336
OwnersPhase(v) == IF v = "first" THEN "users" ELSE "deals"

\* the share of the bar given to the owners: * 50 at line 130, * 30 at line 340
OwnersShare(v) == IF v = "first" THEN 50 ELSE 30

\* the event of lines 92-98 and of lines 298-304
StartEvent(v) ==
    [phase |-> OwnersPhase(v), current |-> 0, total |-> Len(OWNER_IDS),
     percentage |-> Pct(0, 1)]

\* the event of lines 125-131 (current: index + 1) and of lines 335-341
\* (current: completedOwners)
OwnerEvent(v, current) ==
    [phase |-> OwnersPhase(v), current |-> current, total |-> Len(OWNER_IDS),
     percentage |-> Pct(current * OwnersShare(v), Len(OWNER_IDS))]

\* the event of lines 142-148 and of lines 352-358
TasksStartEvent(v, total) ==
    [phase |-> "tasks", current |-> 0, total |-> total,
     percentage |-> Pct(OwnersShare(v), 1)]

\* the event of lines 177-183, 50 + ((i + 1) / allDeals.length) * 50, and of
\* lines 394-400, 30 + (current / totalDeals) * 70
DealEvent(v, current, total) ==
    [phase |-> "tasks", current |-> current, total |-> total,
     percentage |-> Pct(OwnersShare(v) * total + current * (100 - OwnersShare(v)), total)]

\* the event of lines 197-203 and of lines 416-422
CompleteEvent(total) ==
    [phase |-> "complete", current |-> total, total |-> total, percentage |-> Pct(100, 1)]

\* if (current % 100 === 0 || current === totalDeals), line 393
Reports(current, totalDeals) == current % 100 = 0 \/ current = totalDeals

\* a failed request leaves the counter alone
SkipFailure(count) == count

\* processedDeals++ in the catch block, line 404
CountFailure(count) == count + 1

\* the function is called and runs up to await Promise.all(...), lines 88-100
\* and 294-308: every owner's loop is started.  An exception of the first
\* onProgress leaves the function at once
ProgressStart ==
    /\ progressStage = "idle"
    /\ emitted = NoEvent
    /\ onProgress(StartEvent(version))
    /\ \E throws \in SinkThrows :
          IF throws
          THEN /\ progressStage' = "threw"
               /\ UNCHANGED ownersLeft
          ELSE /\ progressStage' = "deals"
               /\ ownersLeft' = Owners
    /\ completedOwners' = 0
    /\ UNCHANGED <<version, processedDeals, sink>>

\* the while loop of owner number index ends, lines 107-133 and 315-343.  The
\* call of onProgress is outside the try block: its exception rejects the
\* owner's promise, hence Promise.all and the function
ProgressOwnerDone(index) ==
    /\ progressStage = "deals"
    /\ index \in ownersLeft
    /\ ownersLeft' = ownersLeft \ {index}
    /\ IF version = "first"
       THEN /\ onProgress(OwnerEvent(version, index))
            /\ UNCHANGED completedOwners
       ELSE /\ completedOwners' = completedOwners + 1
            /\ onProgress(OwnerEvent(version, completedOwners + 1))
    /\ \E throws \in SinkThrows :
          progressStage' = IF throws THEN "threw" ELSE progressStage
    /\ UNCHANGED <<version, processedDeals, sink>>

\* await Promise.all(...) of the owners resumes, lines 137-190 and 347-409:
\* the deals are flattened, the tasks phase announced and the workers started
ProgressDealsJoined ==
    /\ progressStage = "deals"
    /\ ownersLeft = {}
    /\ allDeals' = resource
    /\ onProgress(TasksStartEvent(version, Len(resource)))
    /\ processedDeals' = 0
    /\ \E throws \in SinkThrows :
          IF throws
          THEN /\ progressStage' = "threw"
               /\ UNCHANGED <<poolPhase, workerAt, workerDone, workerTasks, allTasks,
                              requested, completed, failedDeals>>
          ELSE /\ progressStage' = "tasks"
               /\ StartWorkersOn(resource)
    /\ UNCHANGED <<version, ownersLeft, completedOwners, sink>>

\* the request of worker w settles, lines 160-187 and 373-405.  The call of
\* onProgress is inside the try block: its exception is caught as a failed
\* request is
ProgressWorkerResume(w, ok) ==
    /\ progressStage = "tasks"
    /\ WorkerResume(w, ok)
    /\ IF version = "first"
       THEN /\ IF ok
               THEN onProgress(DealEvent(version, workerAt[w] + 1, Len(allDeals)))
               ELSE UNCHANGED emitted
            /\ UNCHANGED processedDeals
       ELSE LET current == processedDeals + 1 IN
            IF ok /\ Reports(current, Len(allDeals))
            THEN /\ onProgress(DealEvent(version, current, Len(allDeals)))
                 /\ \E throws \in SinkThrows :
                       processedDeals' = IF throws THEN CountFailure(current) ELSE current
            ELSE /\ processedDeals' = IF ok THEN current ELSE CountFailure(processedDeals)
                 /\ UNCHANGED emitted
    /\ UNCHANGED <<version, progressStage, ownersLeft, completedOwners, sink>>

\* await Promise.all(workers) resumes, lines 192-205 and 411-424; an exception
\* of the last onProgress leaves the function without its result
ProgressFinish ==
    /\ progressStage = "tasks"
    /\ JoinWorkers
    /\ onProgress(CompleteEvent(Len(allDeals)))
    /\ \E throws \in SinkThrows :
          progressStage' = IF throws THEN "threw" ELSE "complete"
    /\ UNCHANGED <<version, ownersLeft, completedOwners, processedDeals, sink>>

(***************************************************************************)
(* fetchTasks of the dashboard, src/src/services/tasksApi.ts lines 142-231.*)
(* The remote holds a number of records for the date filter; a page is     *)
(* known by its length, the returned list by its length (the sort of line  *)
(* 215 reorders it and leaves the length alone).                           *)
(***************************************************************************)
NoTasksCall == [maxTasks |-> 0, startOffset |-> 0, remote |-> 0]

TasksIdle ==
    /\ tasksCall = NoTasksCall
    /\ tasksPhase = "idle"
    /\ batchAt = [w \in Workers |-> 0]
    /\ batchDone = [w \in Workers |-> FALSE]
    /\ workerCount = [w \in Workers |-> 0]
    /\ offsets = EmptyBag
    /\ tasksLength = 0

\* Math.ceil(maxTasks / limit), line 161
totalBatches(maxTasks) == (maxTasks + limit - 1) \div limit

\* Math.ceil(totalBatches / 20), line 162
batchesPerWorker(maxTasks) == (totalBatches(maxTasks) + NumWorkers - 1) \div NumWorkers

\* line 175
startBatch(w, maxTasks) == w * batchesPerWorker(maxTasks)

\* line 176
endBatch(w, maxTasks) ==
    Min(startBatch(w, maxTasks) + batchesPerWorker(maxTasks), totalBatches(maxTasks))

\* line 179
OffsetOf(batchIndex, call) == call.startOffset + batchIndex * limit

\* data.dealTasks.length of GET /api/3/dealTasks?limit=100&offset=<offset>
PageLength(offset, call) ==
    IF offset >= call.remote THEN 0 ELSE Min(limit, call.remote - offset)

\* the event of lines 164-170
TasksFirstEvent(call) ==
    [phase |-> "tasks", current |-> 0, total |-> call.maxTasks, percentage |-> Pct(0, 1)]

\* the event of lines 189-195: Math.min(100, (currentTotal / maxTasks) * 100)
TasksPageEvent(currentTotal, call) ==
    [phase |-> "tasks", current |-> currentTotal, total |-> call.maxTasks,
     percentage |-> Pct(Min(100 * call.maxTasks, currentTotal * 100), call.maxTasks)]

\* the event of lines 222-228
TasksLastEvent(length, call) ==
    [phase |-> "tasks", current |-> length, total |-> call.maxTasks,
     percentage |-> Pct(100, 1)]

\* fetchTasks is called and runs up to await Promise.all(workers), lines
\* 148-211: every worker runs up to its first await
TasksStart ==
    /\ tasksPhase = "idle"
    /\ tasksPhase' = "running"
    /\ onProgress(TasksFirstEvent(tasksCall))
    /\ LET m == tasksCall.maxTasks
           Active == {w \in Workers : startBatch(w, m) < endBatch(w, m)}
       IN /\ batchAt' = [w \in Workers |-> startBatch(w, m)]
          /\ batchDone' = [w \in Workers |-> w \notin Active]
          /\ offsets' = SetToBag({OffsetOf(startBatch(w, m), tasksCall) : w \in Active})
    /\ UNCHANGED <<tasksCall, workerCount, tasksLength>>

\* the request of worker w settles, lines 181-205: a page that is not empty is
\* kept and reported; a short page or a failure ends the worker's loop
TasksWorkerResume(w, ok) ==
    /\ tasksPhase = "running"
    /\ ~batchDone[w]
    /\ LET batchIndex == batchAt[w]
           page == PageLength(OffsetOf(batchIndex, tasksCall), tasksCall)
           \* tasks.length + workerTasks.length, tasks being empty until line 212
           currentTotal == 0 + (workerCount[w] + page)
           goesOn == ok /\ ~(page < limit)
                        /\ batchIndex + 1 < endBatch(w, tasksCall.maxTasks)
       IN /\ IF ok /\ page > 0
             THEN /\ workerCount' = [workerCount EXCEPT ![w] = @ + page]
                  /\ onProgress(TasksPageEvent(currentTotal, tasksCall))
             ELSE UNCHANGED <<workerCount, emitted>>
          /\ IF goesOn
             THEN /\ batchAt' = [batchAt EXCEPT ![w] = batchIndex + 1]
                  /\ offsets' = offsets (+) SetToBag({OffsetOf(batchIndex + 1, tasksCall)})
                  /\ UNCHANGED batchDone
             ELSE /\ batchDone' = [batchDone EXCEPT ![w] = TRUE]
                  /\ UNCHANGED <<batchAt, offsets>>
    /\ UNCHANGED <<tasksCall, tasksPhase, tasksLength>>

RECURSIVE SumCounts(_, _)
SumCounts(counts, w) ==
    IF w >= NumWorkers THEN 0 ELSE counts[w] + SumCounts(counts, w + 1)

\* await Promise.all(workers) resumes, lines 211-230: the partial results are
\* combined, sorted and returned
TasksFinish ==
    /\ tasksPhase = "running"
    /\ PromiseAll(batchDone)
    /\ tasksPhase' = "returned"
    /\ tasksLength' = SumCounts(workerCount, 0)
    /\ onProgress(TasksLastEvent(SumCounts(workerCount, 0), tasksCall))
    /\ UNCHANGED <<tasksCall, batchAt, batchDone, workerCount, offsets>>

(***************************************************************************)
(* Specifications                                                          *)
(***************************************************************************)
InitLimiter ==
    /\ now = Epoch
    /\ LimiterInit
    /\ PoolIdle(<<>>)
    /\ AggIdle
    /\ FetchIdle
    /\ HandlerIdle
    /\ PipeIdle
    /\ ProgressIdle
    /\ TasksIdle

NextLimiter ==
    \/ Throttle
    \/ WakeUp
    \/ Complete
    \/ Tick

SpecLimiter == InitLimiter /\ [][NextLimiter]_vars

\* the limiter as one run of calculateMetrics uses it: the callers are the
\* users loop, then the owners' loops, then the workers, at most NumWorkers at
\* a time, and each awaits its throttle() call before it makes the next
SoloThrottle ==
    /\ calls - settled < NumWorkers
    /\ Throttle

NextSolo ==
    \/ SoloThrottle
    \/ WakeUp
    \/ Complete
    \/ Tick

SpecSolo == InitLimiter /\ [][NextSolo]_vars

\* ---- the limiter with one call followed: the second, which may find the
\* interval not elapsed, and the first that may find maxConcurrent counted
ObservedCalls == {2, maxConcurrent + 1}

InitProbe ==
    /\ now = Epoch
    /\ queue = <<>>
    /\ activeRequests = 0
    /\ lastRequestTime = 0
    /\ sleeping = EmptyBag
    /\ calls = 0
    /\ inFlight = 0
    /\ started = 0
    /\ settled = 0
    /\ \E c \in ObservedCalls : probe = [NoProbe EXCEPT !.call = c]
    /\ PoolIdle(<<>>)
    /\ AggIdle
    /\ FetchIdle
    /\ HandlerIdle
    /\ PipeIdle
    /\ ProgressIdle
    /\ TasksIdle

SpecProbe == InitProbe /\ [][NextLimiter]_vars

\* ---- the limiter with two calls followed: the first two that may find
\* maxConcurrent counted and be queued one behind the other
InitFifo ==
    /\ now = Epoch
    /\ queue = <<>>
    /\ activeRequests = 0
    /\ lastRequestTime = 0
    /\ sleeping = EmptyBag
    /\ calls = 0
    /\ inFlight = 0
    /\ started = 0
    /\ settled = 0
    /\ probe = [NoProbe EXCEPT !.call = maxConcurrent + 2, !.lead = maxConcurrent + 1]
    /\ PoolIdle(<<>>)
    /\ AggIdle
    /\ FetchIdle
    /\ HandlerIdle
    /\ PipeIdle
    /\ ProgressIdle
    /\ TasksIdle

\* time passes, long enough for two calls dequeued after the first starts to
\* wait out the minimum interval
TickFifo ==
    /\ now < Epoch + MaxFifoTicks * TimeStep
    /\ now' = now + TimeStep
    /\ UNCHANGED <<limiterVars, poolVars, aggVars, fetchVars, handlerVars, pipeVars, progressVars, tasksVars>>

NextFifo ==
    \/ Throttle
    \/ WakeUp
    \/ Complete
    \/ TickFifo

SpecFifo == InitFifo /\ [][NextFifo]_vars

\* ---- every timer fires and every wrapped operation completes; callers
\* arrive up to the horizon of Tick, after which the clock moves on for as long
\* as a timer is pending
Arrival ==
    /\ calls < MaxFairCalls
    /\ now <= Epoch + MaxFairTicks * TimeStep
    /\ Throttle

TickOn ==
    /\ \/ now < Epoch + MaxFairTicks * TimeStep
       \/ \E t \in BagToSet(sleeping) : now < t
    /\ now' = now + TimeStep
    /\ UNCHANGED <<limiterVars, poolVars, aggVars, fetchVars, handlerVars, pipeVars, progressVars, tasksVars>>

InitLimiterFair ==
    /\ now = Epoch
    /\ queue = <<>>
    /\ activeRequests = 0
    /\ lastRequestTime = 0
    /\ sleeping = EmptyBag
    /\ calls = 0
    /\ inFlight = 0
    /\ started = 0
    /\ settled = 0
    /\ probe = [NoProbe EXCEPT !.call = maxConcurrent + 1]
    /\ PoolIdle(<<>>)
    /\ AggIdle
    /\ FetchIdle
    /\ HandlerIdle
    /\ PipeIdle
    /\ ProgressIdle
    /\ TasksIdle

NextLimiterFair ==
    \/ Arrival
    \/ WakeUp
    \/ Complete
    \/ TickOn

SpecLimiterFair ==
    /\ InitLimiterFair
    /\ [][NextLimiterFair]_vars
    /\ WF_vars(WakeUp)
    /\ WF_vars(Complete)
    /\ WF_vars(TickOn)

PoolSizes == (0 .. MaxPoolDeals) \cup (NumWorkers + 1 .. NumWorkers + MaxPoolExtra)

InitPool ==
    /\ now = Epoch
    /\ LimiterInit
    /\ \E n \in PoolSizes : PoolIdle([k \in 1 .. n |-> RemoteDeal(k)])
    /\ AggIdle
    /\ FetchIdle
    /\ HandlerIdle
    /\ PipeIdle
    /\ ProgressIdle
    /\ TasksIdle

NextPool ==
    \/ /\ StartWorkers
       /\ UNCHANGED <<now, limiterVars, aggVars, fetchVars, handlerVars, pipeVars, progressVars, tasksVars>>
    \/ /\ \E w \in Workers, ok \in BOOLEAN : WorkerResume(w, ok)
       /\ UNCHANGED <<now, limiterVars, aggVars, fetchVars, handlerVars, pipeVars, progressVars, tasksVars>>
    \/ /\ JoinWorkers
       /\ UNCHANGED <<now, limiterVars, aggVars, fetchVars, handlerVars, pipeVars, progressVars, tasksVars>>

SpecPool == InitPool /\ [][NextPool]_vars

\* ---- inputs of the aggregation
AggDealLists ==
    { << >>, <<RemoteDeal(1)>>, <<RemoteDeal(1), RemoteDeal(2)>>,
      <<RemoteDeal(2), RemoteDeal(1)>>, <<RemoteDeal(1), RemoteDeal(1)>>,
      <<RemoteDeal(2), [id |-> 1, owner |-> "16"]>>,
      <<RemoteDeal(1), RemoteDeal(2), RemoteDeal(3)>> }

AggTaskValues ==
    { [id |-> 1, status |-> st, duedate |-> dd, dealId |-> 1] :
        st \in {NumberOne, StringOne, NumberZero},
        dd \in {Null, "", "not-a-date", "2024-12-31", "2025-01-01", "2025-01-02"} }
    \cup { [id |-> 2, status |-> NumberZero, duedate |-> "2024-12-31", dealId |-> 2],
           [id |-> 2, status |-> NumberOne, duedate |-> Null, dealId |-> 2] }

AggTaskLists ==
    UNION { [1 .. n -> AggTaskValues] : n \in 0 .. MaxAggTasks }

AggUserLists ==
    { << >>,
      << [id |-> "58", firstName |-> <<"Jane">>, lastName |-> <<Bar, Blank, "GCS", Blank, "Operator">>,
          email |-> << >>] >>,
      << [id |-> "58", firstName |-> <<"Jane">>, lastName |-> << >>, email |-> << >>],
         [id |-> "74", firstName |-> << >>, lastName |-> <<"Ana">>, email |-> <<"ana@gcs.io">>] >>,
      << [id |-> "58", firstName |-> <<"Global">>,
          lastName |-> <<"Citizen", Blank, "Solutions", Blank, "Operator">>, email |-> << >>] >>,
      << [id |-> "58", firstName |-> << >>, lastName |-> <<Bar, Blank, "GCS">>,
          email |-> <<"ana@gcs.io">>],
         [id |-> "74", firstName |-> << >>, lastName |-> << >>, email |-> << >>] >> }

\* the clock and the time zone of the process: noon and the last millisecond of
\* 2025-01-01 in UTC, noon UTC in UTC-5 and in UTC+2
AggClocks ==
    { [now |-> 2 * DayMs + 12 * HourMs, tz |-> 0],
      [now |-> 3 * DayMs - 1, tz |-> 0],
      [now |-> 2 * DayMs + 12 * HourMs, tz |-> 0 - 5 * HourMs],
      [now |-> 2 * DayMs + 12 * HourMs, tz |-> 2 * HourMs] }

InitAgg ==
    /\ LimiterInit
    /\ \E deals \in AggDealLists, tasks \in AggTaskLists :
          /\ allDeals = deals
          /\ allTasks = tasks
    /\ poolPhase = "joined"
    /\ workerAt = [w \in Workers |-> 0]
    /\ workerDone = [w \in Workers |-> TRUE]
    /\ workerTasks = [w \in Workers |-> << >>]
    /\ requested = EmptyBag
    /\ completed = EmptyBag
    /\ failedDeals = {}
    /\ \E users \in AggUserLists : userMap = SetUsers(<< >>, users)
    /\ \E c \in AggClocks :
          /\ now = c.now
          /\ tzOffset = c.tz
    /\ aggDone = FALSE
    /\ aggRuns = 0
    /\ metrics = << >>
    /\ FetchIdle
    /\ HandlerIdle
    /\ PipeIdle
    /\ ProgressIdle
    /\ TasksIdle

NextAgg ==
    /\ Aggregation
    /\ UNCHANGED <<limiterVars, allDeals, workerAt, workerDone, workerTasks, allTasks,
                   requested, completed, failedDeals, poolPhase, fetchVars, handlerVars,
                   pipeVars, progressVars, tasksVars>>

SpecAgg == InitAgg /\ [][NextAgg]_vars

InitFetch ==
    /\ now = Epoch
    /\ LimiterInit
    /\ PoolIdle(<< >>)
    /\ AggIdle
    /\ fetchKind \in {"users", "deals"}
    /\ \E n \in 0 .. MaxRecords : resource = [k \in 1 .. n |-> k]
    /\ fetcher = NewFetcher
    /\ reqFailed = FALSE
    /\ reqSucceeded = FALSE
    /\ HandlerIdle
    /\ PipeIdle
    /\ ProgressIdle
    /\ TasksIdle

NextFetch ==
    \/ /\ FetchStart
       /\ UNCHANGED <<now, limiterVars, poolVars, aggVars, handlerVars, pipeVars, progressVars, tasksVars>>
    \/ /\ \E ok \in BOOLEAN : FetchResume(ok)
       /\ UNCHANGED <<now, limiterVars, poolVars, aggVars, handlerVars, pipeVars, progressVars, tasksVars>>

SpecFetch == InitFetch /\ [][NextFetch]_vars

\* ---- the handler with overlapping calls; calculateMetrics returns one of
\* these lists or throws
AbstractResults ==
    { << >>, << NewMetric("58", UserLabel("58")) >> }

InitCache ==
    /\ now = Epoch
    /\ LimiterInit
    /\ PoolIdle(<< >>)
    /\ AggIdle
    /\ FetchIdle
    /\ \E env \in BOOLEAN : HandlerInit(env)
    /\ PipeIdle
    /\ ProgressIdle
    /\ TasksIdle

NextCache ==
    \/ /\ \E h \in Handlers, method \in {"GET", "OPTIONS"} : HandlerEnter(h, method)
       /\ UNCHANGED <<now, limiterVars, poolVars, aggVars, fetchVars, pipeVars, progressVars, tasksVars>>
    \/ /\ \E h \in Handlers, threw \in BOOLEAN, result \in AbstractResults :
              HandlerResume(h, threw, result)
       /\ UNCHANGED <<now, limiterVars, poolVars, aggVars, fetchVars, pipeVars, progressVars, tasksVars>>
    \/ /\ LongTick
       /\ UNCHANGED <<limiterVars, poolVars, aggVars, fetchVars, handlerVars, pipeVars, progressVars, tasksVars>>

SpecCache == InitCache /\ [][NextCache]_vars

\* ---- one warm instance serving calls one after the other
InitPipeline ==
    /\ now = Epoch
    /\ LimiterInit
    /\ PoolIdle(<< >>)
    /\ AggIdle
    /\ fetchKind = "users"
    /\ resource = RemoteUsers
    /\ fetcher = NewFetcher
    /\ reqFailed = FALSE
    /\ reqSucceeded = FALSE
    /\ \E env \in BOOLEAN : HandlerInit(env)
    /\ PipeIdle
    /\ ProgressIdle
    /\ TasksIdle

NextPipeline ==
    \/ \E method \in {"GET", "OPTIONS"} : PipeEnter(method)
    \/ \E ok \in BOOLEAN : PipeUsersResume(ok)
    \/ \E o \in Owners, ok \in BOOLEAN : PipeOwnerResume(o, ok)
    \/ PipeDealsJoined
    \/ \E w \in Workers, ok \in BOOLEAN : PipeWorkerResume(w, ok)
    \/ PipeFinish
    \/ PipeHandlerResume
    \/ /\ LongTick
       /\ stage \in {"idle", "returned", "threw"}
       /\ UNCHANGED <<limiterVars, poolVars, aggVars, fetchVars, handlerVars, pipeVars, progressVars, tasksVars>>

SpecPipeline == InitPipeline /\ [][NextPipeline]_vars

\* the step of PipeFinish, by its guard and what it does to stage
PipeFinishStep ==
    /\ stage = "tasks"
    /\ poolPhase = "running"
    /\ PromiseAll(workerDone)
    /\ stage' = "returned"

\* every request handed to the limiter settles, with a page or with a failure,
\* and the continuation of a fulfilled Promise.all is run
PipelineFairness ==
    /\ WF_vars(\E ok \in BOOLEAN : PipeUsersResume(ok))
    /\ WF_vars(\E o \in Owners, ok \in BOOLEAN : PipeOwnerResume(o, ok))
    /\ WF_vars(PipeDealsJoined)
    /\ WF_vars(\E w \in Workers, ok \in BOOLEAN : PipeWorkerResume(w, ok))
    /\ WF_stage(PipeFinishStep)

\* the runs of calculateMetrics while the clock stands still
NextRun ==
    \/ \E method \in {"GET", "OPTIONS"} : PipeEnter(method)
    \/ \E ok \in BOOLEAN : PipeUsersResume(ok)
    \/ \E o \in Owners, ok \in BOOLEAN : PipeOwnerResume(o, ok)
    \/ PipeDealsJoined
    \/ \E w \in Workers, ok \in BOOLEAN : PipeWorkerResume(w, ok)
    \/ PipeFinish
    \/ PipeHandlerResume

SpecPipelineFair == InitPipeline /\ [][NextRun]_vars /\ PipelineFairness

\* the first version is run on the small lists only
ProgressSizes(v) == IF v = "first" THEN 0 .. MaxPoolDeals ELSE PoolSizes

\* fetchDealsAndTasks is about to be called with a sink of the given kind
ProgressSetUp(kind) ==
    /\ now = Epoch
    /\ LimiterInit
    /\ PoolIdle(<< >>)
    /\ AggIdle
    /\ HandlerIdle
    /\ PipeIdle
    /\ fetchKind = "deals"
    /\ fetcher = NewFetcher
    /\ reqFailed = FALSE
    /\ reqSucceeded = FALSE
    /\ version \in Versions
    /\ \E n \in ProgressSizes(version) : resource = [k \in 1 .. n |-> RemoteDeal(k)]
    /\ progressStage = "idle"
    /\ ownersLeft = {}
    /\ completedOwners = 0
    /\ processedDeals = 0
    /\ emitted = NoEvent
    /\ sink = kind
    /\ TasksIdle

InitProgress == ProgressSetUp("quiet")

NextProgress ==
    \/ /\ ProgressStart
       /\ UNCHANGED <<now, limiterVars, poolVars, aggVars, fetchVars, handlerVars, pipeVars, tasksVars>>
    \/ /\ \E index \in Owners : ProgressOwnerDone(index)
       /\ UNCHANGED <<now, limiterVars, poolVars, aggVars, fetchVars, handlerVars, pipeVars, tasksVars>>
    \/ /\ ProgressDealsJoined
       /\ UNCHANGED <<now, limiterVars, aggVars, fetchVars, handlerVars, pipeVars, tasksVars>>
    \/ /\ \E w \in Workers, ok \in BOOLEAN : ProgressWorkerResume(w, ok)
       /\ UNCHANGED <<now, limiterVars, aggVars, fetchVars, handlerVars, pipeVars, tasksVars>>
    \/ /\ ProgressFinish
       /\ UNCHANGED <<now, limiterVars, aggVars, fetchVars, handlerVars, pipeVars, tasksVars>>

SpecProgress == InitProgress /\ [][NextProgress]_vars

\* the same with a sink whose calls may throw
InitSink == ProgressSetUp("faulty")

SpecSink == InitSink /\ [][NextProgress]_vars

\* the values of maxTasks: up to MaxTaskPages pages, a multiple of the page
\* size or not, the value the dashboard passes, and one batch more than there
\* are workers
MaxTasksValues ==
    {(limit \div 2) * k : k \in 1 .. 2 * MaxTaskPages}
        \cup {DefaultMaxTasks, (NumWorkers + 1) * limit}

StartOffsets == {0, limit}

RemoteTaskCounts == {0, limit \div 2, limit, MaxRemoteTasks}

InitTasks ==
    /\ now = Epoch
    /\ LimiterInit
    /\ PoolIdle(<< >>)
    /\ AggIdle
    /\ FetchIdle
    /\ HandlerIdle
    /\ PipeIdle
    /\ ProgressIdle
    /\ \E m \in MaxTasksValues, o \in StartOffsets, n \in RemoteTaskCounts :
          tasksCall = [maxTasks |-> m, startOffset |-> o, remote |-> n]
    /\ tasksPhase = "idle"
    /\ batchAt = [w \in Workers |-> 0]
    /\ batchDone = [w \in Workers |-> FALSE]
    /\ workerCount = [w \in Workers |-> 0]
    /\ offsets = EmptyBag
    /\ tasksLength = 0

NextTasks ==
    \/ /\ TasksStart
       /\ UNCHANGED <<now, limiterVars, poolVars, aggVars, fetchVars, handlerVars, pipeVars,
                      version, progressStage, ownersLeft, completedOwners, processedDeals,
                      sink>>
    \/ /\ \E w \in Workers, ok \in BOOLEAN : TasksWorkerResume(w, ok)
       /\ UNCHANGED <<now, limiterVars, poolVars, aggVars, fetchVars, handlerVars, pipeVars,
                      version, progressStage, ownersLeft, completedOwners, processedDeals,
                      sink>>
    \/ /\ TasksFinish
       /\ UNCHANGED <<now, limiterVars, poolVars, aggVars, fetchVars, handlerVars, pipeVars,
                      version, progressStage, ownersLeft, completedOwners, processedDeals,
                      sink>>

SpecTasks == InitTasks /\ [][NextTasks]_vars

(***************************************************************************)
(* Claims on the rate limiter                                              *)
(***************************************************************************)
\* C1: the number of wrapped operations that have started and have not yet
\* completed never exceeds maxConcurrent.
C1_ConcurrencyBound == inFlight <= maxConcurrent

\* C2: every wrapped operation but the first starts at least minInterval after
\* the start before it (lastRequestTime holds the time of the latest start).
C2_MinIntervalBetweenStarts ==
    [][(started' = started + 1 /\ started > 0) => now' - lastRequestTime >= minInterval]_vars


\* C11: the promise of a throttle() call is resolved when its operation
\* returned and rejected when it failed; each settlement, failed or not,
\* decrements activeRequests once (it equals the number of unsettled
\* operations), settles no other call and drops none: the queue only loses
\* its head, which then executes, no timer is cancelled, and every call is
\* queued, waiting, in flight or settled.
C11_FailureStaysWithCaller ==
    /\ [](/\ probe.at = "resolved" <=> probe.fn = "ok"
          /\ probe.at = "rejected" <=> probe.fn = "fail"
          /\ probe.at \in {"resolved", "rejected"} => probe.starts = 1
          /\ activeRequests = inFlight
          /\ calls = settled + Len(queue) + BagCardinality(sleeping) + inFlight)
    /\ [][settled' = settled + 1 =>
            /\ \/ probe'.at = probe.at
               \/ probe.at = "running" /\ probe'.at \in {"resolved", "rejected"}
               \/ probe.at = "queued" /\ probe'.at \in {"sleeping", "running"}
            /\ \/ queue' = queue /\ sleeping' = sleeping /\ inFlight' = inFlight - 1
               \/ /\ queue # << >> /\ queue' = Tail(queue)
                  /\ \/ sleeping' = sleeping /\ inFlight' = inFlight
                     \/ /\ BagCardinality(sleeping') = BagCardinality(sleeping) + 1
                        /\ inFlight' = inFlight - 1]_vars

\* the observed call has been rejected while another call is in the queue
\* and others are in flight
C11_Witness ==
    /\ probe.at = "rejected"
    /\ queue # << >>
    /\ inFlight > 0

\* C12: when every timer fires and every wrapped operation completes, a call
\* that has been made is eventually settled, after its operation was invoked
\* exactly once (no call stays in the queue); once callers stop arriving
\* every call made is settled for good; and whenever every call made has
\* settled, activeRequests is 0 and the queue is empty.
C12_EveryCallSettles ==
    /\ (probe.at \in {"queued", "sleeping", "running"})
          ~> (probe.at \in {"resolved", "rejected"} /\ probe.starts = 1)
    /\ <>[](settled = calls)
    /\ [](probe.starts <= 1)
    /\ [](settled = calls => activeRequests = 0 /\ queue = << >>)

\* the observed call is in the queue behind maxConcurrent operations in flight
C12_Witness ==
    /\ probe.at = "queued"
    /\ queue = <<probe.call>>
    /\ inFlight >= maxConcurrent

\* C34: the limiter never idles while it has a backlog: whenever the pending
\* queue is not empty, the operations admitted and not yet completed (running,
\* or waiting out the minimum interval) number at least maxConcurrent.
C34_NoIdleWithBacklog ==
    queue # << >> => inFlight + BagCardinality(sleeping) >= maxConcurrent

\* a completion has handed its slot to a queued call, which waits out the
\* interval while another call is still queued
C34_Witness ==
    /\ queue # << >>
    /\ settled > 0
    /\ BagCardinality(sleeping) > 0
    /\ inFlight < maxConcurrent

\* C27: operations placed in the pending queue are started in the order in
\* which they were enqueued: of two calls that were queued one behind the
\* other, the later one is not started before the earlier one.
C27_QueuedStartInOrder ==
    [][(probe.bothQueued /\ probe.at # "running" /\ probe'.at = "running")
        => probe.leadAt \in {"running", "done"}]_vars

(***************************************************************************)
(* Claims on the worker pool                                               *)
(***************************************************************************)
\* C3: each deal index 0..N-1 is requested at most once at any moment and exactly
\* once when the pool has joined, and no index outside 0..N-1 is requested.
C3_EachDealOnce ==
    /\ \A i \in BagToSet(requested) : i \in 0 .. Len(allDeals) - 1 /\ CopiesIn(i, requested) = 1
    /\ poolPhase = "joined" => BagToSet(requested) = 0 .. Len(allDeals) - 1

C3_Witness ==
    /\ poolPhase = "joined"
    /\ Len(allDeals) > NumWorkers
    /\ Len(allTasks) > 0

\* the records of list that belong to deal id, in order
TasksOf(list, id) == SelectSeq(list, LAMBDA t : t.dealId = id)

\* C14: a failed task request does not end the worker's slice and touches no
\* other deal: a worker that has finished has requested every index of its
\* slice, and the tasks of each observed deal are in the worker's list, and
\* after the join in the result, exactly when that deal's own request
\* returned.
C14_FailureSkipsOneDeal ==
    poolPhase # "idle" =>
        \A w \in Workers :
            LET n == Len(allDeals)
                slice == StartIndex(w, n) .. EndIndex(w, n) - 1
            IN /\ workerDone[w] => \A i \in slice : CopiesIn(i, requested) = 1
               /\ \A i \in slice :
                     LET id == allDeals[i + 1].id
                         own == IF id \in failedDeals THEN << >>
                                ELSE TagTasks(RemoteDealTasks(id), id)
                     IN (id \in ObservedDeals /\ CopiesIn(i, completed) = 1) =>
                           /\ TasksOf(workerTasks[w], id) = own
                           /\ poolPhase = "joined" => TasksOf(allTasks, id) = own

\* 21 deals, two to a slice: the request for deal 1 failed, and the tasks of
\* deal 2, next in the same slice, are in the result
C14_Witness ==
    /\ poolPhase = "joined"
    /\ Len(allDeals) = NumWorkers + 1
    /\ 1 \in failedDeals
    /\ TasksOf(allTasks, 2) # << >>

\* C15: in the slice of each worker at most one request is outstanding, and
\* the request for index i + 1 has been made only if the request for index i
\* has settled, with a result or with a failure.
C15_SliceIsSequential ==
    \A w \in Workers :
        LET n == Len(allDeals)
            slice == StartIndex(w, n) .. EndIndex(w, n) - 1
        IN /\ Cardinality({i \in slice : CopiesIn(i, requested) > CopiesIn(i, completed)}) <= 1
           /\ \A i \in slice :
                 (i + 1 \in slice /\ CopiesIn(i + 1, requested) > 0) =>
                     CopiesIn(i, completed) > 0

\* worker 0 of 21 deals has its second request out, the first having failed
C15_Witness ==
    /\ poolPhase = "running"
    /\ Len(allDeals) = NumWorkers + 1
    /\ 1 \in failedDeals
    /\ CopiesIn(1, requested) = 1
    /\ CopiesIn(1, completed) = 0

\* C16: the combined list is empty until the join; the join happens only
\* when all 20 workers have returned and every index has been requested and
\* has settled, and the combined list is then the concatenation of the
\* workers' lists in worker order, holding the tasks of each deal whose
\* request returned once and nothing else.
C16_JoinAfterAllWorkers ==
    /\ poolPhase # "joined" => allTasks = << >>
    /\ poolPhase = "joined" =>
          /\ \A w \in Workers : workerDone[w]
          /\ BagToSet(completed) = 0 .. Len(allDeals) - 1
          /\ allTasks = ConcatFrom(workerTasks, 0)
          /\ \A id \in ObservedDeals :
                TasksOf(allTasks, id) =
                    IF id \in failedDeals \/ id > Len(allDeals) THEN << >>
                    ELSE TagTasks(RemoteDealTasks(id), id)
          /\ \A k \in 1 .. Len(allTasks) : allTasks[k].dealId \in ObservedDeals

\* three deals, one to a worker: the lists of workers 0 and 1 are combined
C16_Witness ==
    /\ poolPhase = "joined"
    /\ Len(allDeals) = 3
    /\ workerTasks[0] # << >> /\ workerTasks[1] # << >>
    /\ allTasks = workerTasks[0] \o workerTasks[1]

\* C29: the pool splits the list of N deals into 20 contiguous slices in list
\* order that cover it exactly, none longer than ceil(N/20); the slices before
\* the first shorter one are full and the slices after it are empty.
C29_SlicesPartition ==
    [][(poolPhase = "idle" /\ poolPhase' = "running") =>
        LET n == Len(allDeals')
            size == IF n % NumWorkers = 0 THEN n \div NumWorkers ELSE n \div NumWorkers + 1
            from(w) == StartIndex(w, n)
            to(w) == EndIndex(w, n)
            len(w) == IF to(w) > from(w) THEN to(w) - from(w) ELSE 0
        IN /\ from(0) = 0
           /\ n > 0 => len(0) > 0
           /\ \A w \in Workers :
                /\ len(w) <= size
                /\ len(w) > 0 => to(w) <= n
                /\ w + 1 \in Workers =>
                      /\ len(w + 1) > 0 => from(w + 1) = to(w)
                      /\ len(w) < size => len(w + 1) = 0
                /\ (len(w) > 0 /\ (w + 1 \in Workers => len(w + 1) = 0)) => to(w) = n
                /\ workerAt'[w] = from(w)
                /\ workerDone'[w] <=> len(w) = 0]_vars

\* 21 deals are being processed: ten slices of two, one of one, nine empty
C29_Witness ==
    /\ poolPhase = "running"
    /\ Len(allDeals) = NumWorkers + 1
    /\ workerAt[10] = 20
    /\ workerDone[11]
    /\ \E w \in Workers : workerAt[w] = StartIndex(w, Len(allDeals)) + 1

\* C29 as stated: every slice except the final one has exactly ceil(N/20)
\* items, and only the final slice may be shorter or empty.
C29_OnlyFinalSliceShort ==
    [][(poolPhase = "idle" /\ poolPhase' = "running") =>
        LET n == Len(allDeals')
            size == IF n % NumWorkers = 0 THEN n \div NumWorkers ELSE n \div NumWorkers + 1
        IN \A w \in Workers :
              w < NumWorkers - 1 =>
                  /\ EndIndex(w, n) >= StartIndex(w, n)
                  /\ EndIndex(w, n) - StartIndex(w, n) = size]_vars

\* C38: during a single run on a limiter no other run uses (at most 20
\* concurrent callers, each with at most one throttle() call outstanding) no
\* operation is ever placed in the pending queue, and activeRequests never
\* exceeds the number of callers.
C38_SoloRunNeverQueues ==
    /\ queue = << >>
    /\ activeRequests <= NumWorkers
    /\ activeRequests <= calls - settled

\* the 20 workers all have an operation running, one of them its second
C38_Witness ==
    /\ activeRequests = NumWorkers
    /\ calls > NumWorkers
    /\ settled > 0

(***************************************************************************)
(* Claims on the aggregation                                               *)
(***************************************************************************)
\* C4: in every accumulator the aggregation produces, total is the sum of the
\* four buckets completed, overdue, openFutureDueDate and openNoDueDate.
C4_TotalIsSumOfBuckets ==
    aggDone =>
        \A k \in 1 .. Len(metrics) :
            metrics[k].total = metrics[k].completed + metrics[k].overdue
                               + metrics[k].openFutureDueDate + metrics[k].openNoDueDate

\* the number of times the aggregation visits a task for owner o, once for
\* each entry of the deal list it belongs to, among the tasks that satisfy P
Visits(o, P(_)) ==
    Cardinality({ pair \in (1 .. Len(allDeals)) \X (1 .. Len(allTasks)) :
                    /\ allDeals[pair[1]].owner = o
                    /\ allTasks[pair[2]].dealId = allDeals[pair[1]].id
                    /\ P(allTasks[pair[2]]) })

\* C17: for each owner, completed counts exactly the visited tasks whose status
\* is the number 1 or the string "1", whatever their due date, and
\* openNoDueDate exactly the visited tasks that are not completed and have no
\* due date; neither kind is counted in overdue or openFutureDueDate.
C17_CompletedAndNoDueDate ==
    aggDone =>
        \A k \in 1 .. Len(metrics) :
            LET m == metrics[k]
                Done(t) == t.status \in {NumberOne, StringOne}
                Undated(t) == ~Done(t) /\ t.duedate \in {Null, ""}
                Dated(t) == ~Done(t) /\ ~(t.duedate \in {Null, ""})
            IN /\ m.completed = Visits(m.ownerId, Done)
               /\ m.openNoDueDate = Visits(m.ownerId, Undated)
               /\ m.overdue + m.openFutureDueDate <= Visits(m.ownerId, Dated)

\* a task with status "1" due the day before today and an open task without
\* due date have been counted
C17_Witness ==
    /\ aggDone
    /\ tzOffset = 0
    /\ allDeals = <<RemoteDeal(1)>>
    /\ allTasks = << [id |-> 1, status |-> StringOne, duedate |-> "2024-12-31", dealId |-> 1],
                     [id |-> 1, status |-> NumberZero, duedate |-> Null, dealId |-> 1] >>
    /\ metrics[1].completed = 1
    /\ metrics[1].openNoDueDate = 1
    /\ metrics[1].overdue = 0

\* C18: for each owner, overdue counts exactly the visited open tasks whose
\* due date is a calendar day before the current local calendar day, and
\* openFutureDueDate exactly those due on the current day or later, in every
\* time zone (for due dates that are dates, the clock not being read across
\* local midnight).
C18_CalendarDateBuckets ==
    (aggDone /\ (now + tzOffset) % DayMs # 0) =>
        \A k \in 1 .. Len(metrics) :
            LET m == metrics[k]
                today == (now + tzOffset) \div DayMs
                IsDate(t) == \E d \in 1 .. Len(DateStrings) : DateStrings[d] = t.duedate
                DayOf(t) == CHOOSE d \in 1 .. Len(DateStrings) : DateStrings[d] = t.duedate
                Open(t) == ~(t.status \in {NumberOne, StringOne}) /\ IsDate(t)
                Late(t) == Open(t) /\ DayOf(t) < today
                Due(t) == Open(t) /\ DayOf(t) >= today
            IN /\ m.overdue = Visits(m.ownerId, Late)
               /\ m.openFutureDueDate = Visits(m.ownerId, Due)

\* C19: the output of the aggregation never holds an accumulator of an owner
\* marked for exclusion: owner id '16', or a display name that contains
\* 'global citizen solutions operator'.
C19_ExcludedOwnersDropped ==
    aggDone =>
        \A k \in 1 .. Len(metrics) :
            ~shouldExcludeOwner(metrics[k].owner, metrics[k].ownerId)

\* C20: the output of the aggregation holds exactly one accumulator for each
\* distinct owner id found on a deal and none for any other owner id; an owner
\* none of whose deals has a task has all counters zero.
C20_OneAccumulatorPerOwner ==
    aggDone =>
        LET owners == {allDeals[i].owner : i \in 1 .. Len(allDeals)}
            DealIds(o) == {allDeals[i].id : i \in {j \in 1 .. Len(allDeals) : allDeals[j].owner = o}}
            NoTasks(o) == \A j \in 1 .. Len(allTasks) : allTasks[j].dealId \notin DealIds(o)
        IN /\ \A o \in owners :
                Cardinality({k \in 1 .. Len(metrics) : metrics[k].ownerId = o}) = 1
           /\ \A k \in 1 .. Len(metrics) :
                /\ metrics[k].ownerId \in owners
                /\ NoTasks(metrics[k].ownerId) =>
                      /\ metrics[k].total = 0
                      /\ metrics[k].completed = 0
                      /\ metrics[k].overdue = 0
                      /\ metrics[k].openFutureDueDate = 0
                      /\ metrics[k].openNoDueDate = 0

\* three deals of two owners were aggregated: one owner has two deals and
\* tasks, the other has no task
C20_Witness ==
    /\ aggDone
    /\ Len(allDeals) = 3
    /\ allDeals[1].owner = allDeals[3].owner
    /\ allDeals[1].owner # allDeals[2].owner
    /\ Len(metrics) = 2
    /\ \E k, j \in 1 .. 2 :
          /\ metrics[k].ownerId = allDeals[1].owner /\ metrics[k].total > 0
          /\ metrics[j].ownerId = allDeals[2].owner /\ metrics[j].total = 0

\* C21: the list returned by the aggregation is sorted by display name,
\* ascending: of two adjacent accumulators the first one's owner compares less
\* than or equal to the second one's.
C21_SortedByOwner ==
    aggDone =>
        \A k \in 1 .. Len(metrics) - 1 : NameLeq(metrics[k].owner, metrics[k + 1].owner)

\* two owners whose deals came in the opposite order of their names were
\* aggregated
C21_Witness ==
    /\ aggDone
    /\ Len(allDeals) = 2
    /\ Len(metrics) = 2
    /\ metrics[1].owner # metrics[2].owner
    /\ metrics[1].ownerId = allDeals[2].owner
    /\ metrics[2].ownerId = allDeals[1].owner

\* C22: running the aggregation again over the same deals, tasks and users on
\* the same current date returns the list the previous run returned.
C22_RerunIsIdentical ==
    [][(/\ aggRuns >= 1
        /\ aggRuns' = aggRuns + 1
        /\ (now + tzOffset) % DayMs # 0
        /\ (now' + tzOffset) % DayMs # 0) => metrics' = metrics]_vars

\* the aggregation has run twice over two deals of two owners with tasks
C22_Witness ==
    /\ aggRuns = 2
    /\ (now + tzOffset) % DayMs # 0
    /\ Len(allDeals) = 2
    /\ Len(metrics) = 2
    /\ metrics[1].total > 0
    /\ metrics[2].total > 0

\* C24: the display name of a user is the first and last name cut at the first
\* '|' and trimmed; when that is empty it is the contact address, and without
\* one "User <id>"; an owner without directory entry is labelled "User <id>";
\* truncating a display name again leaves it unchanged.
C24_DisplayNames ==
    LET Blanks(str, a, b) == \A k \in a .. b : str[k] = Blank
        Normal(n) == /\ \A k \in 1 .. Len(n) : n[k] # Bar
                     /\ n # << >> => n[1] # Blank /\ n[Len(n)] # Blank
        \* n is what is left of full before its first bar, without outer blanks
        CutOf(full, n) ==
            LET bars == {k \in 1 .. Len(full) : full[k] = Bar}
                cut == IF bars = {} THEN Len(full) + 1
                       ELSE CHOOSE k \in bars : \A j \in bars : k <= j
            IN /\ Normal(n)
               /\ \E a \in 0 .. cut - 1 :
                     /\ a + Len(n) <= cut - 1
                     /\ SubSeq(full, a + 1, a + Len(n)) = n
                     /\ Blanks(full, 1, a)
                     /\ Blanks(full, a + Len(n) + 1, cut - 1)
        NameOf(u, n) ==
            LET full == u.firstName \o <<Blank>> \o u.lastName
            IN IF CutOf(full, << >>)
               THEN IF u.email # << >> THEN n = u.email ELSE n = <<"User", Blank, u.id>>
               ELSE CutOf(full, n)
    IN /\ \E users \in AggUserLists :
            /\ {users[k].id : k \in 1 .. Len(users)} = DOMAIN userMap
            /\ \A k \in 1 .. Len(users) : NameOf(users[k], userMap[users[k].id])
       /\ aggDone =>
            \A k \in 1 .. Len(metrics) :
                LET m == metrics[k] IN
                /\ m.ownerId \in DOMAIN userMap => m.owner = userMap[m.ownerId]
                /\ m.ownerId \notin DOMAIN userMap => m.owner = <<"User", Blank, m.ownerId>>
                /\ cleanOwnerName(m.owner) = m.owner

\* a deal of the user entered as "Jane" "| GCS Operator" and a deal of an owner
\* without directory entry have been aggregated
C24_Witness ==
    /\ aggDone
    /\ userMap = ("58" :> <<"Jane">>)
    /\ Len(metrics) = 2
    /\ metrics[1].owner = <<"Jane">>
    /\ metrics[2].owner = <<"User", Blank, "74">>

(***************************************************************************)
(* Claims on the result cache                                              *)
(***************************************************************************)
\* C5: a GET of a configured handler answers with the stored entry, tagged
\* cached and with the stored payload, if and only if an entry exists and
\* now - timestamp < CACHE_DURATION; in every other case it runs
\* calculateMetrics, and the result it returns is answered tagged not cached.
C5_CachedIffFresh ==
    \A h \in Handlers :
        (hMethod[h] = "GET" /\ configured /\ hPc[h] # "idle") =>
            LET fresh == hSeen[h].present
                         /\ hNow[h] - hSeen[h].timestamp < CACHE_DURATION
            IN IF fresh
               THEN /\ hPc[h] = "done"
                    /\ ~hRun[h].ran
                    /\ response[h].status = 200
                    /\ response[h].cached
                    /\ response[h].metrics = hSeen[h].metrics
                    /\ response[h].at = hSeen[h].timestamp
               ELSE \/ hPc[h] = "computing"
                    \/ /\ hRun[h].ran
                       /\ ~response[h].cached
                       /\ ~hRun[h].threw =>
                             /\ response[h].status = 200
                             /\ response[h].metrics = hRun[h].metrics

\* one call was served a non-empty entry from the cache, and another found the
\* entry exactly one TTL old and recomputed
C5_Witness ==
    \E h, g \in Handlers :
        /\ hPc[h] = "done" /\ hMethod[h] = "GET"
        /\ response[h].cached /\ response[h].metrics # << >>
        /\ hPc[g] = "done" /\ hMethod[g] = "GET"
        /\ hSeen[g].present
        /\ hNow[g] - hSeen[g].timestamp = CACHE_DURATION
        /\ hRun[g].ran /\ ~hRun[g].threw /\ ~response[g].cached

\* C10: when calculateMetrics throws during a recomputation, cachedData is
\* left as it was (a stale entry is neither overwritten nor cleared), only the
\* call that awaited it is answered with the failure, and a later GET that
\* finds no fresh entry computes again.
C10_FailureLeavesCache ==
    /\ [][\A h \in Handlers :
            (hPc[h] = "computing" /\ hPc'[h] = "done" /\ hRun'[h].threw) =>
                /\ cachedData' = cachedData
                /\ response'[h].status = 500
                /\ \A g \in Handlers \ {h} :
                      response'[g] = response[g] /\ hPc'[g] = hPc[g]]_vars
    /\ [](\A h, g \in Handlers :
            (/\ hPc[g] = "done" /\ hRun[g].threw
             /\ hPc[h] # "idle" /\ hMethod[h] = "GET" /\ hNow[h] >= hEnd[g]
             /\ ~(hSeen[h].present /\ hNow[h] - hSeen[h].timestamp < CACHE_DURATION))
            => (hPc[h] = "computing" \/ hRun[h].ran))

\* a recomputation over a stale entry failed, the entry is still there, and a
\* later call is computing again
C10_Witness ==
    \E h, g \in Handlers :
        /\ hPc[g] = "done" /\ hRun[g].threw /\ response[g].status = 500
        /\ hSeen[g].present /\ cachedData = hSeen[g]
        /\ hPc[h] = "computing" /\ hNow[h] > hEnd[g]

\* C25: calls that overlap while the cache is absent or stale each run their
\* own recomputation; cachedData changes only when one of them finishes with a
\* result, and then to the complete entry of that computation, so that it
\* always holds its previous entry or the entry of the latest write.
C25_OverlappingRecomputations ==
    /\ [][\A h \in Handlers :
            (/\ hPc'[h] # hPc[h] /\ hPc'[h] # "idle" /\ hMethod'[h] = "GET" /\ configured
             /\ \E g \in Handlers \ {h} : hPc[g] = "computing"
             /\ ~(cachedData.present /\ now - cachedData.timestamp < CACHE_DURATION)
             /\ hPc[h] # "computing")
            => hPc'[h] = "computing"]_vars
    /\ [][cachedData' # cachedData =>
            \E h \in Handlers :
                /\ hPc[h] = "computing" /\ hPc'[h] = "done"
                /\ hRun'[h].ran /\ ~hRun'[h].threw
                /\ cachedData'.present
                /\ cachedData'.metrics = hRun'[h].metrics
                /\ response'[h].metrics = cachedData'.metrics]_vars

\* two calls found the same stale entry and both recomputed, with different
\* results; the cache holds the result of the one that finished later
C25_Witness ==
    \E h, g \in Handlers :
        /\ hPc[h] = "done" /\ hRun[h].ran /\ ~hRun[h].threw
        /\ hPc[g] = "done" /\ hRun[g].ran /\ ~hRun[g].threw
        /\ hSeen[h].present /\ hSeen[g] = hSeen[h]
        /\ hRun[h].metrics # hRun[g].metrics
        /\ hEnd[h] < hEnd[g]
        /\ cachedData.metrics = hRun[g].metrics

\* C35: the timestamp of the cache entry never decreases: however get() calls
\* overlap, each write to the cache stores a timestamp greater than or equal to
\* that of the entry it replaces.
C35_TimestampNeverDecreases ==
    [][(cachedData.present /\ cachedData' # cachedData)
         => cachedData'.timestamp >= cachedData.timestamp]_vars

\* C28: the entry a recomputation stores carries the time at which it is
\* stored, so that a GET made less than CACHE_DURATION after the entry was
\* stored is served from the cache.
C28_StampedWhenStored ==
    /\ [][cachedData' # cachedData => cachedData'.timestamp = now']_vars
    /\ [][\A h \in Handlers :
            (/\ hPc'[h] # hPc[h] /\ hPc[h] # "computing" /\ hMethod'[h] = "GET" /\ configured
             /\ \E g \in Handlers :
                    /\ hPc[g] = "done" /\ hRun[g].ran /\ ~hRun[g].threw
                    /\ cachedData.metrics = hRun[g].metrics
                    /\ cachedData.timestamp = hNow[g]
                    /\ now - hEnd[g] < CACHE_DURATION)
            => response'[h].cached]_vars

(***************************************************************************)
(* Claims on the paginated fetcher                                         *)
(***************************************************************************)
\* C6: a fetch loop that ends with no failed request over a resource of
\* n = limit*k + r records (0 <= r < limit) has issued exactly k + 1 requests,
\* at offsets 0, limit, ..., k*limit in that order, and the last one returned
\* r records.
C6_PageRequests ==
    (fetcher.status = "returned" /\ ~reqFailed) =>
        LET n == Len(resource)
            k == n \div limit
            r == n % limit
        IN /\ fetcher.requests = [j \in 1 .. k + 1 |-> (j - 1) * limit]
           /\ Len(RemotePage(resource, fetcher.requests[k + 1])) = r
           /\ Len(fetcher.records) = n

C6_Witness ==
    /\ fetcher.status = "returned"
    /\ ~reqFailed
    /\ Len(resource) = 2 * limit
    /\ Len(fetcher.requests) = 3

\* C7: after a failed page request the fetcher, users or deals, has returned
\* (it has not thrown) with the records of the pages before the failed one,
\* and the failed request was its last.
C7_PageFailureContained ==
    reqFailed =>
        /\ fetcher.status = "returned"
        /\ fetcher.records = SubSeq(resource, 1, fetcher.requests[Len(fetcher.requests)])

(***************************************************************************)
(* Claims on the pipeline run                                              *)
(***************************************************************************)
\* C8: whichever page requests or per-deal requests fail, calculateMetrics
\* completes and returns its aggregate; the run as a whole never fails.
C8_RunNeverFails == stage # "threw"

\* C9: when every request of a run has failed, the handler answers with a
\* failure (status 500, never 200 with an empty list) and cachedData is as
\* the call found it.
C9_TotalFailureIsExplicit ==
    (hPc[1] = "done" /\ hRun[1].ran /\ reqFailed /\ ~reqSucceeded) =>
        /\ response[1].status = 500
        /\ cachedData = hSeen[1]

\* a run whose only requests failed has been answered
C9_Witness ==
    /\ hPc[1] = "done" /\ hRun[1].ran
    /\ reqFailed /\ ~reqSucceeded
    /\ response[1].status = 500

C23_OrderIndependent ==
    stage = "returned" =>
        LET Answered(o) ==
                {i \in 1 .. Len(allDeals) :
                    allDeals[i].owner = o /\ allDeals[i].id \notin failedDeals}
            Count(o, P(_)) ==
                Cardinality({p \in Answered(o) \X (1 .. 2) :
                    /\ p[2] <= Len(RemoteDealTasks(allDeals[p[1]].id))
                    /\ P(RemoteDealTasks(allDeals[p[1]].id)[p[2]])})
            Each(t) == TRUE
            Closed(t) == t.status \in {NumberOne, StringOne}
            Undated(t) == ~Closed(t) /\ t.duedate = Null
            Dated(t) == ~Closed(t) /\ t.duedate # Null
        IN /\ {metrics[k].ownerId : k \in 1 .. Len(metrics)}
                = {allDeals[i].owner : i \in 1 .. Len(allDeals)}
           /\ \A k \in 1 .. Len(metrics) :
                LET m == metrics[k] IN
                /\ m.total = Count(m.ownerId, Each)
                /\ m.completed = Count(m.ownerId, Closed)
                /\ m.openNoDueDate = Count(m.ownerId, Undated)
                /\ m.openFutureDueDate = Count(m.ownerId, Dated)
                /\ m.overdue = 0
                /\ \A j \in 1 .. Len(metrics) : j # k => metrics[j].ownerId # m.ownerId

\* a run over the three deals of two owners has returned, every task request
\* having succeeded
C23_Witness ==
    /\ stage = "returned"
    /\ Len(allDeals) = 3
    /\ failedDeals = {}
    /\ Len(allTasks) = 3
    /\ Len(metrics) = 2
    /\ metrics[1].total + metrics[2].total = 3

\* C33: the stages of a run are separated by barriers: no deal request of an
\* owner is issued before the pagination of the users has finished, no task
\* request of a deal before the deal pagination of every owner has finished,
\* and the aggregation runs only after every worker has finished.
C33_StagesSeparatedByBarriers ==
    /\ (\E o \in Owners : ownerFetch[o].requests # << >>) => fetcher.status = "returned"
    /\ requested # EmptyBag =>
          \A o \in Owners : ownerFetch[o].status = "returned"
    /\ aggDone =>
          /\ \A w \in Workers : workerDone[w]
          /\ BagCardinality(completed) = BagCardinality(requested)

\* a run has returned after task requests for three deals
C33_Witness ==
    /\ stage = "returned"
    /\ aggDone
    /\ BagCardinality(requested) = MaxRemoteDeals
    /\ \E o \in Owners : Len(ownerFetch[o].requests) > 0

Emits == emitted' # emitted

\* the phase of the new event is not an earlier one than that of the last
PhasesAdvance == PhaseRank(emitted'.phase) >= PhaseRank(emitted.phase)

\* within a phase, current and percentage do not decrease
MonotoneInPhase ==
    emitted'.phase = emitted.phase =>
        /\ emitted'.current >= emitted.current
        /\ PctLeq(emitted.percentage, emitted'.percentage)

\* C26: within one call, the events of one phase carry non-decreasing current
\* and percentage values in emission order, whatever the interleaving of the
\* workers, and no event of an earlier phase follows one of a later phase.
C26_MonotoneProgress == [][Emits => (PhasesAdvance /\ MonotoneInPhase)]_vars

\* the two halves of C26 apart: the order of the phases, in both versions, and
\* the monotonicity within a phase in the second version
C26_PhasesInOrder == [][Emits => PhasesAdvance]_vars

C26_SecondVersionMonotone == [][(version = "second" /\ Emits) => MonotoneInPhase]_vars

\* C32: the sink is purely observational: a call of the sink that throws never
\* makes the fetch function fail, never drops fetched records from the result,
\* and never changes how many items are counted as processed.
C32_SinkFailureIsHarmless ==
    /\ progressStage # "threw"
    /\ (version = "second" /\ progressStage \in {"tasks", "complete"}) =>
          processedDeals = BagCardinality(completed)
    /\ progressStage = "complete" => allTasks = ConcatFrom(workerTasks, 0)

\* the three parts of C32 apart
C32_FetchNeverFails == progressStage # "threw"

C32_CountUnchanged ==
    (version = "second" /\ progressStage \in {"tasks", "complete"}) =>
        processedDeals = BagCardinality(completed)

\* an exception of the sink inside a worker's try block loses no record the
\* worker has fetched
C32_WorkerKeepsRecords ==
    [][\A w \in Workers :
          (progressStage = "tasks" /\ progressStage' = "tasks")
             => Len(workerTasks'[w]) >= Len(workerTasks[w])]_vars

C36_ExactlyOneOfOverdueAndFuture ==
    [][aggRuns' = aggRuns + 1 =>
         \A k \in 1 .. Len(allTasks) :
            LET task == allTasks[k] IN
            (~isComplete(task) /\ ~NoDueDate(task)) =>
               (isTaskOverdue(task, now, tzOffset) # isTaskFutureDueDate(task, now', tzOffset))]_vars

(***************************************************************************)
(* Claims about the conservation of records                                *)
(***************************************************************************)
RECURSIVE SumOfTotals(_)
SumOfTotals(list) ==
    IF list = << >> THEN 0 ELSE Head(list).total + SumOfTotals(Tail(list))

\* every task of the list was fetched for a deal of the deal list
FetchedForListedDeals ==
    \A k \in 1 .. Len(allTasks) :
        \E j \in 1 .. Len(allDeals) : allDeals[j].id = allTasks[k].dealId

\* the ids of the deal list are distinct
DistinctDealIds ==
    \A i, j \in 1 .. Len(allDeals) : allDeals[i].id = allDeals[j].id => i = j

\* C37: the sum of total over the accumulators the aggregation returns is the
\* number of tasks the run fetched: no fetched task is dropped and none is
\* counted more than once, also when a deal id occurs twice in the deal list.
C37_AggregationConservesRecords ==
    (aggDone /\ FetchedForListedDeals) => SumOfTotals(metrics) = Len(allTasks)

\* the same for deal lists without a repeated id
C37_ConservedWithDistinctIds ==
    (aggDone /\ FetchedForListedDeals /\ DistinctDealIds) =>
        SumOfTotals(metrics) = Len(allTasks)


(***************************************************************************)
(* Claims about fetchTasks (specification SpecTasks)                       *)
(***************************************************************************)
\* an event whose fields agree with one another
Consistent(event) ==
    /\ event.percentage.den > 0
    /\ 0 <= event.percentage.num
    /\ event.percentage.num <= 100 * event.percentage.den
    /\ 0 <= event.current
    /\ event.current <= event.total

\* C31: every progress event that is emitted is internally consistent:
\* 0 <= percentage <= 100 and 0 <= current <= total, for every input, a
\* maxTasks that is not a multiple of the page size included.
C31_EventsConsistent == Consistent(emitted)

\* C31, support: the percentage of every event of fetchTasks is within 0 .. 100
C31_PercentageInRange ==
    /\ emitted.percentage.den > 0
    /\ 0 <= emitted.percentage.num
    /\ emitted.percentage.num <= 100 * emitted.percentage.den

\* C31, support: when maxTasks is a multiple of the page size the events of
\* fetchTasks are consistent
C31_ConsistentOnWholePages ==
    tasksCall.maxTasks % limit = 0 => Consistent(emitted)

\* C31, support (SpecProgress): the events of fetchDealsAndTasks are
\* consistent, the empty deal list included
C31_DealsEventsConsistent == progressStage # "idle" => Consistent(emitted)

\* the offsets fetchTasks may ask for
AllowedOffsets(call) ==
    {call.startOffset + b * limit : b \in 0 .. totalBatches(call.maxTasks) - 1}

\* C40, first part: the offsets requested are among startOffset + b * limit,
\* 0 <= b < ceil(maxTasks / limit)
C40_OffsetsInRange == BagToSet(offsets) \subseteq AllowedOffsets(tasksCall)

\* C40, second part: each offset is requested at most once
C40_EachOffsetOnce == \A o \in BagToSet(offsets) : CopiesIn(o, offsets) = 1

\* C40, third part: a worker asks for a further page only after full pages
\* that succeeded, so it stops at the first short page or failed request
C40_StopsAtShortPageOrFailure ==
    \A w \in Workers :
        tasksPhase # "idle" =>
            LET asked == batchAt[w] - startBatch(w, tasksCall.maxTasks)
            IN IF batchDone[w]
               THEN /\ workerCount[w] >= asked * limit
                    /\ workerCount[w] <= (asked + 1) * limit
               ELSE workerCount[w] = asked * limit

\* C40, fourth part: the returned list holds at most maxTasks tasks
C40_ReturnsAtMostMaxTasks ==
    tasksPhase = "returned" => tasksLength <= tasksCall.maxTasks

\* C40: in fetchTasks the offsets requested by the 20 workers are a subset of
\* { startOffset + b * limit : 0 <= b < ceil(maxTasks / limit) }, each offset
\* is requested at most once, a worker stops its slice at the first short
\* page or failed request, and the returned list holds at most maxTasks tasks.
C40_FetchTasksContract ==
    /\ C40_OffsetsInRange
    /\ C40_EachOffsetOnce
    /\ C40_StopsAtShortPageOrFailure
    /\ C40_ReturnsAtMostMaxTasks

\* C40, support: with maxTasks a multiple of the page size the returned list
\* holds at most maxTasks tasks
C40_AtMostMaxTasksOnWholePages ==
    (tasksPhase = "returned" /\ tasksCall.maxTasks % limit = 0)
        => tasksLength <= tasksCall.maxTasks

=============================================================================
